---- MODULE Spec2Model ----
(***************************************************************************)
(* State-machine model of the stream counting and telemetry code of        *)
(* DeepStream-Yolo (src/src/*.py).                                         *)
(*                                                                         *)
(* The repository holds several entry-point scripts; a process runs one of *)
(* them.  The variable prog names the component the behaviour is about,    *)
(* and every action belongs to one component.  Each component has its own  *)
(* specification (SpecTrack, SpecPersist, ...).                            *)
(***************************************************************************)
EXTENDS Integers, Sequences, FiniteSets, TLC

(***************************************************************************)
(* Bounds of the model and program constants                               *)
(***************************************************************************)
\* longest batch handed to a probe, counted in list nodes (frames + objects)
MaxBatch == 4
\* longest batch of detections that all count, in list nodes
MaxCrowd == 5
\* largest total_count in a persisted file the first process starts from
MaxLoaded == 2
\* most processes started one after the other on the same persisted file
MaxStarts == 2
\* most publish_loop threads of one publisher
MaxLoops == 2
\* most failed connects in a row
MaxFailRun == 6
\* cap on what one behaviour adds to the counters of a frame-count component
\* or of an ObjectCounter, all streams together
MaxCount == 2
\* most replaced clients whose network loop is still counted
MaxReplaced == 2

\* confidence in tenths: 0.5 is 5
Threshold == 5
\* max_reconnect_attempts of monitor_and_publish
max_reconnect_attempts == 5
\* pyds.UNTRACKED_OBJECT_ID, the id of a detection the tracker gave no id
UNTRACKED_OBJECT_ID == -1

Streams == {0, 1}
Ids == {11, 12}
ConfLevels == {Threshold, 9}


(***************************************************************************)
(* Conversions between stream ids and JSON object keys.  A key is a        *)
(* sequence of characters.                                                 *)
(***************************************************************************)
DigitChars == <<"0", "1", "2", "3", "4", "5", "6", "7", "8", "9">>
IsDigit(c) == \E d \in 1..Len(DigitChars) : DigitChars[d] = c
DigitVal(c) == (CHOOSE d \in 1..Len(DigitChars) : DigitChars[d] = c) - 1

RECURSIVE str(_)
\* Python str(n) for n >= 0: the decimal digits of n
str(n) == IF n < Len(DigitChars) THEN <<DigitChars[n + 1]>>
          ELSE str(n \div Len(DigitChars)) \o <<DigitChars[(n % Len(DigitChars)) + 1]>>

\* whether Python int(key) succeeds (it raises ValueError otherwise)
IsIntLiteral(key) == Len(key) > 0 /\ \A i \in 1..Len(key) : IsDigit(key[i])

RECURSIVE int(_)
\* Python int(key) for a key of digits
int(key) == IF Len(key) = 0 THEN 0
            ELSE Len(DigitChars) * int(SubSeq(key, 1, Len(key) - 1)) + DigitVal(key[Len(key)])

(***************************************************************************)
(* State                                                                   *)
(***************************************************************************)
VARIABLES
  prog,             \* the component the behaviour is about
  \* TrackingBasedCounter (tracking_based_counter.py)
  tracked_objects,  \* self.tracked_objects: defaultdict(set), stream -> ids
  session_counts,   \* self.session_counts: defaultdict(int)
  stream_totals,    \* self.stream_totals: defaultdict(int), with its key set
  tb_file,          \* content of self.persistence_file
  tb_phase,         \* "running", or "stopped" once cleanup() has run
  tb_load_failed,   \* history: load_session_data took its except branch
  tb_loaded,        \* history: stream_totals as load_session_data left it
  tb_starts,        \* history: number of processes started so far
  observed,         \* history: stream -> tracked ids seen above threshold
  tb_last,          \* history: what the last batch handed to the probe held
  tb_overlay,       \* per stream, what the last add_tracking_overlay computed
  \* AdvancedLiveCounter (advanced_live_counter.py)
  stream_counts,    \* self.stream_counts: stream -> live, session, total
  \* AnalyticsStreamCounter (analytics_stream_counter.py)
  stream_analytics, \* self.stream_analytics: stream -> counters
  \* both frame-count components
  fc_loaded,        \* history: stream -> total seeded by load_persistent_counts
  fc_qualifying,    \* history: stream -> detections above threshold the probe saw
  \* ObjectCounter (object_counter.py)
  counts,           \* self.counts: stream -> cans, total_objects
  oc_file,          \* content of data/persistence/object_counts.json
  oc_last,          \* history: the stream_id of the last increment_count call, as a set
  oc_saved,         \* history: how the last save_counts call of this process went
  \* LiveCounterMonitor (simple_live_counter.py), which uses the same file
  live_counts,      \* self.stream_counts: stream -> current, total
  \* publisher entry points (tracking_deepstream.py, tracking_mqtt.py,
  \* production_deepstream.py, production_mqtt.py)
  running,            \* the global running flag
  main_pc,            \* where the main thread is
  mon_pc,             \* where the code that owns the connection is
  mon_ticks,          \* parity of the time.sleep(1) rounds of its waiting loop
  reconnect_attempts, \* the local of monitor_and_publish
  connected,          \* publisher -> self.connected
  publishing,         \* publisher -> self.publishing
  loops_starting,     \* publisher -> publish_loop threads started, flag not yet set
  loops_alive,        \* publisher -> publish_loop threads inside the while loop
  fail_run,           \* history: failed connects in a row in this retry cycle, up to MaxFailRun
  degraded,           \* history: the 30-second pause was entered since the last success
  recovered_from,     \* history: what the last successful connect came out of
  lost,               \* history: connection dropped, no connect attempted since
  shutdown_log,       \* history: the shutdown steps taken, in order
  \* one publisher object inside connect() (production_mqtt.py, tracking_mqtt.py)
  cn_pc,              \* where the thread that called connect() is
  cn_timeout,         \* the local timeout, in half seconds
  cn_flag,            \* self.connected
  cn_result,          \* what the call returned, "none" while it runs
  cn_polls,           \* history: time.sleep(0.5) rounds of this call
  cn_seen,            \* history: self.connected was True at a moment of this call
  cn_raised,          \* history: the client raised during this call
  cn_threads,         \* a client of this publisher has a network thread running
  cn_loops,           \* network loops running: of self.client, and of clients replaced
  \* a caller of ObjectCounter.get_all_counts (production_mqtt.py)
  oc_snapshot,        \* the dict it was handed: key -> the inner dict it refers to
  oc_taken,           \* history: the values that dict showed when it was returned
  \* TrackingMQTTPublisher's own tracking state (tracking_mqtt.py)
  tm_tracked,         \* self.tracked_objects: stream -> set of ids
  tm_session,         \* self.session_counts: stream -> int
  tm_writer,          \* the thread inside update_tracked_objects, with its locals
  tm_reader,          \* the publish_loop thread inside publish_tracking_count
  \* the publish_loop thread of one publisher (production_mqtt.py, tracking_mqtt.py)
  pl_kind,            \* which publisher it belongs to
  pl_connected,       \* self.connected
  pl_clock,           \* int(time.time()), modulo ClockCycle
  pl_counter,         \* self.counter, the counter object the publisher made
  pl_sent,            \* what the last round of the loop published
  pl_gap,             \* history: rounds in a row, connected, without a publish
  pl_config,          \* what load_config was given and what it took the credentials from
  hs,                 \* one call of get_system_health: the readings and the status
  \* the publish_loop thread, statement by statement
  pr_thread,          \* where it is in the round, and in which call of the round
  pr_handed,          \* history: what this round gave to client.publish, and self.connected then
  \* one detection before the confidence test of one counting path
  th,                 \* its confidence, the path, and whether the path counted it
  \* one broker setting inside TrackingMQTTPublisher.load_config
  ld,                 \* the setting, what environment and file hold, the value taken
  \* the threads that call one ObjectCounter (object_counter.py)
  lk_holder,          \* self.lock: the thread that holds it, 0 when it is free
  lk_thr              \* thread -> where it is in its call, and how its last call ended

trackVars == <<tracked_objects, session_counts, stream_totals, tb_file,
               tb_phase, tb_load_failed, tb_loaded, tb_starts, observed, tb_last,
               tb_overlay>>

frameVars == <<stream_counts, stream_analytics, fc_loaded, fc_qualifying>>

objVars == <<counts, oc_file, oc_last, oc_saved, live_counts>>
pubVars == <<running, main_pc, mon_pc, mon_ticks, reconnect_attempts, connected, publishing,
             loops_starting, loops_alive, fail_run, degraded, recovered_from, lost,
             shutdown_log>>

connVars == <<cn_pc, cn_timeout, cn_flag, cn_result, cn_polls, cn_seen, cn_raised, cn_threads,
             cn_loops>>

snapVars == <<oc_snapshot, oc_taken>>
tmVars == <<tm_tracked, tm_session, tm_writer, tm_reader>>
loopVars == <<pl_kind, pl_connected, pl_clock, pl_counter, pl_sent, pl_gap, pl_config, hs>>
callVars == <<pr_thread, pr_handed>>
miscVars == <<th, ld, lk_holder, lk_thr>>

notTrack == <<frameVars, objVars, pubVars, connVars, snapVars, tmVars, loopVars, callVars, miscVars>>
notFrame == <<trackVars, objVars, pubVars, connVars, snapVars, tmVars, loopVars, callVars, miscVars>>
notObj == <<trackVars, frameVars, pubVars, connVars, snapVars, tmVars, loopVars, callVars, miscVars>>

vars == <<prog, trackVars, frameVars, objVars, pubVars, connVars, snapVars, tmVars,
          loopVars, callVars, miscVars>>

(***************************************************************************)
(* Persisted files.  A file is missing, is not JSON (garbage, for instance *)
(* a truncated write), is JSON whose top level is a list, or is a JSON     *)
(* object: a sequence of entries in file order, each a key with either an  *)
(* object (isdict) or another JSON value.                                  *)
(***************************************************************************)
FileMissing == [kind |-> "missing", entries |-> <<>>]
FileGarbage == [kind |-> "garbage", entries |-> <<>>]
FileList == [kind |-> "list", entries |-> <<>>]
FileDict(es) == [kind |-> "dict", entries |-> es]

Entry(k, d, h, t, n) ==
  [key |-> k, isdict |-> d, has_total |-> h, total_count |-> t, session_count |-> n]

\* entries a file found at first start may hold
GoodEntry(s, t) == Entry(str(s), TRUE, TRUE, t, 1)
BadKeyEntry == Entry(<<"x">>, TRUE, TRUE, 1, 0)   \* a key that is no number
NonDictEntry == Entry(str(0), FALSE, FALSE, 0, 0) \* a value that is no object
NoTotalEntry == Entry(str(1), TRUE, FALSE, 0, 1)  \* an object without total_count

\* the JSON objects a file found at first start may hold
InitEntrySeqs ==
  {<<>>, <<NoTotalEntry>>}
    \cup {<<GoodEntry(s, t)>> : s \in Streams, t \in 1..MaxLoaded}
    \cup UNION {{<<GoodEntry(0, t), GoodEntry(1, MaxLoaded)>>,
                 <<GoodEntry(1, t), BadKeyEntry>>,
                 <<BadKeyEntry, GoodEntry(0, t)>>,
                 <<NonDictEntry, GoodEntry(1, t)>>} : t \in 1..MaxLoaded}

InitFiles ==
  {FileMissing, FileGarbage, FileList} \cup {FileDict(es) : es \in InitEntrySeqs}

EmptyMap == [k \in {} |-> 0]
Put(f, k, v) == [x \in (DOMAIN f) \cup {k} |-> IF x = k THEN v ELSE f[x]]
\* defaultdict(int) read without inserting
Get(f, k) == IF k \in DOMAIN f THEN f[k] ELSE 0

(***************************************************************************)
(* TrackingBasedCounter.load_session_data / save_session_data              *)
(***************************************************************************)
\* stream_data.get('total_count', 0) as load_session_data reads it
\* a load that seeds the total from the session count
LoadedTotal_ReadsSession(e) == e.session_count
LoadedTotal(e) == IF e.has_total THEN e.total_count ELSE 0

RECURSIVE LoadEntries(_, _)
\* the for loop of load_session_data over data.items(): int(stream_id)
\* raises on a key that is no number, and the except branch ends the load
\* with the entries before it applied
LoadEntries(acc, es) ==
  IF es = <<>> THEN acc
  ELSE LET e == Head(es) IN
       IF ~e.isdict THEN LoadEntries(acc, Tail(es))
       ELSE IF ~IsIntLiteral(e.key) THEN [acc EXCEPT !.failed = TRUE]
       ELSE LoadEntries([acc EXCEPT !.totals = Put(acc.totals, int(e.key), LoadedTotal(e))],
                        Tail(es))

load_session_data(file) ==
  CASE file.kind = "missing" -> [totals |-> EmptyMap, failed |-> FALSE]
    [] file.kind = "garbage" -> [totals |-> EmptyMap, failed |-> TRUE]
    [] file.kind = "list"    -> [totals |-> EmptyMap, failed |-> TRUE]
    [] file.kind = "dict"    ->
         LoadEntries([totals |-> EmptyMap, failed |-> FALSE], file.entries)

RECURSIVE SortedKeys(_)
SortedKeys(S) ==
  IF S = {} THEN <<>>
  ELSE LET m == CHOOSE x \in S : \A y \in S : x <= y
       IN <<m>> \o SortedKeys(S \ {m})

\* the data dict save_session_data builds: one entry per key of
\* stream_totals (written here in ascending key order)
SavedEntries(totals, sessions) ==
  LET ks == SortedKeys(DOMAIN totals)
  IN [i \in 1..Len(ks) |->
        Entry(str(ks[i]), TRUE, TRUE, totals[ks[i]], sessions[ks[i]])]

\* the file after save_session_data: "ok" wrote it; "denied" raised in mkdir
\* or open, before the old content was touched; "torn" raised (or the
\* process died) after open(..., 'w') truncated the file
SaveOutcomes == {"ok", "denied", "torn"}
save_session_data(file, totals, sessions, outcome) ==
  CASE outcome = "ok"     -> FileDict(SavedEntries(totals, sessions))
    [] outcome = "denied" -> file
    [] outcome = "torn"   -> FileGarbage

(***************************************************************************)
(* Idle values                                                             *)
(***************************************************************************)
\* the values the variables of a component keep while another one runs
IdleTrack ==
  /\ tracked_objects = [s \in Streams |-> {}]
  /\ session_counts = [s \in Streams |-> 0]
  /\ stream_totals = EmptyMap
  /\ tb_file = FileMissing
  /\ tb_phase = "stopped"
  /\ tb_load_failed = FALSE
  /\ tb_loaded = EmptyMap
  /\ tb_starts = 0
  /\ observed = [s \in Streams |-> {}]
  /\ tb_last = "nothing"
  /\ tb_overlay = [s \in Streams |-> {}]

FreshStreamCounts == [s \in Streams |-> [live |-> 0, session |-> 0, total |-> 0]]
FreshStreamAnalytics ==
  [s \in Streams |-> [live_objects |-> 0, frame_detections |-> 0, session_count |-> 0,
                      total_count |-> 0, line_crossings |-> 0, analytics_events |-> 0]]

IdleFrame ==
  /\ stream_counts = FreshStreamCounts
  /\ stream_analytics = FreshStreamAnalytics
  /\ fc_loaded = [s \in Streams |-> 0]
  /\ fc_qualifying = [s \in Streams |-> 0]

\* ObjectCounter.__init__ before load_counts: four streams at zero
ObjStreams == 0..3
FreshCounts == [s \in ObjStreams |-> [cans |-> 0, total_objects |-> 0]]

FreshLiveCounts == [s \in Streams |-> [current |-> 0, total |-> 0]]

IdleObj ==
  /\ counts = FreshCounts
  /\ live_counts = FreshLiveCounts
  /\ oc_file = FileMissing
  /\ oc_last = {}
  /\ oc_saved = "none"

\* the publishers: the global mqtt_publisher of the monitor code and the
\* one TrackingDeepStreamApp owns
Pubs == {"global", "app"}

IdlePub ==
  /\ running = TRUE
  /\ main_pc = "none"
  /\ mon_pc = "none"
  /\ mon_ticks = FALSE
  /\ reconnect_attempts = 0
  /\ connected = [p \in Pubs |-> FALSE]
  /\ publishing = [p \in Pubs |-> FALSE]
  /\ loops_starting = [p \in Pubs |-> 0]
  /\ loops_alive = [p \in Pubs |-> 0]
  /\ fail_run = 0
  /\ degraded = FALSE
  /\ recovered_from = "none"
  /\ lost = FALSE
  /\ shutdown_log = <<>>

\* no connect() call is looked at
IdleConn ==
  /\ cn_pc = "idle"
  /\ cn_timeout = 0
  /\ cn_flag = FALSE
  /\ cn_result = "none"
  /\ cn_polls = 0
  /\ cn_seen = FALSE
  /\ cn_raised = FALSE
  /\ cn_threads = FALSE
  /\ cn_loops = [current |-> FALSE, replaced |-> 0]

\* get_all_counts has not been called
IdleSnap ==
  /\ oc_snapshot = <<>>
  /\ oc_taken = <<>>

\* a thread that is in neither method
NoCall == [pc |-> "idle", stream |-> 0, count |-> 0, lock |-> "none", payload |-> <<>>]

\* TrackingMQTTPublisher.__init__: two defaultdicts, nobody inside a method
IdleTm ==
  /\ tm_tracked = [s \in Streams |-> {}]
  /\ tm_session = [s \in Streams |-> 0]
  /\ tm_writer = NoCall
  /\ tm_reader = NoCall

\* no publish_loop thread: the values before a publisher is made
NoConfig == [kind |-> "none", file |-> "none", env |-> "none", constructed |-> FALSE,
             username |-> "none", password |-> "none"]
NoSample == [cpu |-> 0, mem |-> 0, system_status |-> "none"]
NothingSent == [connected |-> FALSE, counts |-> <<>>, summary |-> <<>>, health |-> <<>>]
IdleLoop ==
  /\ pl_kind = "none"
  /\ pl_connected = FALSE
  /\ pl_clock = 0
  /\ pl_counter = <<>>
  /\ pl_sent = NothingSent
  /\ pl_gap = [summary |-> 0, health |-> 0]
  /\ pl_config = NoConfig
  /\ hs = NoSample

\* no publish_loop thread followed statement by statement
IdleCall ==
  /\ pr_thread = [pc |-> "none", call |-> 0]
  /\ pr_handed = <<>>

\* no detection under test
IdleMisc ==
  /\ th = [confidence |-> 0, path |-> "none", counted |-> "none"]
  /\ ld = [setting |-> "none", env |-> "unset", file |-> "no section", value |-> "none"]
  /\ lk_holder = 0
  /\ lk_thr = <<>>

IdleExtra == IdleConn /\ IdleSnap /\ IdleTm /\ IdleLoop /\ IdleCall /\ IdleMisc
IdleNotTrack == IdleFrame /\ IdleObj /\ IdlePub /\ IdleExtra
IdleNotFrame == IdleTrack /\ IdleObj /\ IdlePub /\ IdleExtra
IdleNotObj == IdleTrack /\ IdleFrame /\ IdlePub /\ IdleExtra
IdleNotPub == IdleTrack /\ IdleFrame /\ IdleObj /\ IdleExtra

(***************************************************************************)
(* Batches.  batch_meta.frame_meta_list is a list of frames, each with a   *)
(* source_id and an obj_meta_list of detections.                           *)
(***************************************************************************)
Objs == [object_id : Ids \cup {UNTRACKED_OBJECT_ID}, confidence : ConfLevels]

\* detections as the frame-count probes see them: only the confidence is read
FrameObjs == [object_id : {UNTRACKED_OBJECT_ID}, confidence : ConfLevels]

FramesOfSize(O, k) ==
  {[source_id |-> s, obj_meta_list |-> o] : s \in Streams, o \in [1..(k - 1) -> O]}

RECURSIVE BatchesUpTo(_, _)
\* the batches of at most n list nodes (frames plus detections) over objects O
BatchesUpTo(O, n) ==
  {<<>>} \cup UNION {{<<f>> \o rest : f \in FramesOfSize(O, k), rest \in BatchesUpTo(O, n - k)}
                      : k \in 1..n}

Batches == BatchesUpTo(Objs, MaxBatch)
FrameBatches == BatchesUpTo(FrameObjs, MaxBatch)
\* the batches of one frame with one detection
SingleFrameBatches ==
  {<<[source_id |-> s, obj_meta_list |-> <<o>>]>> : s \in Streams, o \in FrameObjs}
SingleBatches ==
  {<<[source_id |-> s, obj_meta_list |-> <<o>>]>> : s \in Streams, o \in Objs}

\* the condition of process_tracked_objects on one detection
Qualifies(o) == o.object_id # UNTRACKED_OBJECT_ID /\ o.confidence > Threshold

(***************************************************************************)
(* TrackingBasedCounter.osd_sink_pad_buffer_probe                          *)
(***************************************************************************)
\* an update that adds the id and the session count but leaves the total
CountNewObject_LeavesTotal(st, s, id) ==
  [st EXCEPT !.tracked[s] = @ \cup {id},
             !.session[s] = @ + 1]

\* the three updates made under self.lock for a new id
CountNewObject(st, s, id) ==
  [st EXCEPT !.tracked[s] = @ \cup {id},
             !.session[s] = @ + 1,
             !.totals = Put(st.totals, s, Get(st.totals, s) + 1)]

RECURSIVE process_tracked_objects(_, _, _)
\* The while loop over obj_meta_list.  For a new id the counts are updated
\* and then self.counter.increment_count is called; TrackingBasedCounter has
\* no attribute counter, so this raises AttributeError, which only the
\* except of the probe catches: raised ends the probe.
process_tracked_objects(st, s, objs) ==
  IF objs = <<>> THEN st
  ELSE LET o == Head(objs) IN
       IF Qualifies(o) /\ o.object_id \notin st.tracked[s]
       THEN [CountNewObject(st, s, o.object_id) EXCEPT !.raised = TRUE]
       ELSE process_tracked_objects(st, s, Tail(objs))

\* history: the tracked ids above threshold that one frame holds
FrameIds(frame_meta) ==
  {frame_meta.obj_meta_list[i].object_id :
     i \in {j \in 1..Len(frame_meta.obj_meta_list) : Qualifies(frame_meta.obj_meta_list[j])}}

\* add_tracking_overlay reads self.stream_totals[stream_id], which inserts
\* the key into the defaultdict;
\* the overlay itself changes no count. unique_objects_current is the size
\* of self.tracked_objects[stream_id]; frame_ids is history: the tracked ids
\* above threshold that frame_meta holds
add_tracking_overlay(st, frame_meta, stream_id) ==
  [st EXCEPT !.totals = Put(st.totals, stream_id, Get(st.totals, stream_id)),
             !.overlay[stream_id] =
                {[unique_objects_current |-> Cardinality(st.tracked[stream_id]),
                  frame_ids |-> FrameIds(frame_meta)]}]

RECURSIVE ProbeFrames(_, _)
\* the while loop of the probe over frame_meta_list
ProbeFrames(st, batch) ==
  IF batch = <<>> THEN st
  ELSE LET f == Head(batch)
           st1 == process_tracked_objects(st, f.source_id, f.obj_meta_list)
       IN IF st1.raised THEN st1
          ELSE ProbeFrames(add_tracking_overlay(st1, f, f.source_id), Tail(batch))

\* history: the tracked ids above threshold a batch shows for stream s
RECURSIVE BatchIds(_, _)
BatchIds(batch, s) ==
  IF batch = <<>> THEN {}
  ELSE LET f == Head(batch) IN
       (IF f.source_id = s
        THEN {f.obj_meta_list[i].object_id :
                i \in {j \in 1..Len(f.obj_meta_list) : Qualifies(f.obj_meta_list[j])}}
        ELSE {})
       \cup BatchIds(Tail(batch), s)

\* the detections of a batch, frame after frame
RECURSIVE BatchObjs(_)
BatchObjs(batch) ==
  IF batch = <<>> THEN <<>> ELSE Head(batch).obj_meta_list \o BatchObjs(Tail(batch))

\* history: "untracked" for a batch all of whose detections lack a tracking
\* id, "nothing" for one without detections
BatchKind(batch) ==
  LET objs == BatchObjs(batch) IN
  IF objs = <<>> THEN "nothing"
  ELSE IF \A i \in 1..Len(objs) : objs[i].object_id = UNTRACKED_OBJECT_ID THEN "untracked"
  ELSE "tracked"

TrackProbe(B) ==
  /\ prog = "track"
  /\ tb_phase = "running"
  /\ \E batch \in B :
       LET st == ProbeFrames([tracked |-> tracked_objects, session |-> session_counts,
                              totals |-> stream_totals, raised |-> FALSE,
                              overlay |-> tb_overlay], batch)
       IN /\ tracked_objects' = st.tracked
          /\ session_counts' = st.session
          /\ stream_totals' = st.totals
          /\ observed' = [s \in Streams |-> observed[s] \cup BatchIds(batch, s)]
          /\ tb_last' = BatchKind(batch)
          /\ tb_overlay' = st.overlay
  /\ UNCHANGED <<prog, tb_file, tb_phase, tb_load_failed, tb_loaded, tb_starts, notTrack>>

\* cleanup(): save_session_data, then the pipeline is stopped
TrackCleanup ==
  /\ prog = "track"
  /\ tb_phase = "running"
  /\ \E outcome \in SaveOutcomes :
       tb_file' = save_session_data(tb_file, stream_totals, session_counts, outcome)
  /\ tb_phase' = "stopped"
  /\ UNCHANGED <<prog, tracked_objects, session_counts, stream_totals,
                 tb_load_failed, tb_loaded, tb_starts, observed, tb_last, tb_overlay,
                 notTrack>>

\* __init__ of a fresh process: empty defaultdicts, then load_session_data
TrackStart(file) ==
  LET r == load_session_data(file) IN
  /\ tracked_objects' = [s \in Streams |-> {}]
  /\ session_counts' = [s \in Streams |-> 0]
  /\ stream_totals' = r.totals
  /\ tb_load_failed' = r.failed
  /\ tb_loaded' = r.totals
  /\ observed' = [s \in Streams |-> {}]
  /\ tb_last' = "nothing"
  /\ tb_overlay' = [s \in Streams |-> {}]
  /\ tb_phase' = "running"

\* the process ends (after cleanup, or killed at any time) and a new one starts
TrackRestart ==
  /\ prog = "track"
  /\ tb_starts < MaxStarts
  /\ TrackStart(tb_file)
  /\ tb_starts' = tb_starts + 1
  /\ UNCHANGED <<prog, tb_file, notTrack>>

InitTrackFrom(files) ==
  /\ prog = "track"
  /\ tb_file \in files
  /\ LET r == load_session_data(tb_file) IN
       /\ tracked_objects = [s \in Streams |-> {}]
       /\ session_counts = [s \in Streams |-> 0]
       /\ stream_totals = r.totals
       /\ tb_load_failed = r.failed
       /\ tb_loaded = r.totals
       /\ observed = [s \in Streams |-> {}]
       /\ tb_last = "nothing"
       /\ tb_overlay = [s \in Streams |-> {}]
       /\ tb_phase = "running"
       /\ tb_starts = 1
  /\ IdleNotTrack

\* one process of the tracking counter, started from an empty snapshot
InitTrack == InitTrackFrom({FileMissing})
NextTrack == TrackProbe(Batches) \/ TrackCleanup
SpecTrack == InitTrack /\ [][NextTrack]_vars

\* processes of the tracking counter over restarts, with persistence
(***************************************************************************)
(* Claims about the tracking counter                                       *)
(***************************************************************************)
\* C1: under the tracking-id policy, started from an empty snapshot, the
\* total of every stream equals the number of distinct tracked ids seen
\* above threshold on it, also when several new ids come in one frame or
\* batch.
C1_TotalIsDistinctIds ==
  \A s \in Streams : Get(stream_totals, s) = Cardinality(observed[s])

(***************************************************************************)
(* AdvancedLiveCounter (frame-count policy)                                *)
(***************************************************************************)
\* number of detections of a frame with confidence > 0.5
RECURSIVE QualifyingIn(_)
QualifyingIn(objs) ==
  IF objs = <<>> THEN 0
  ELSE (IF Head(objs).confidence > Threshold THEN 1 ELSE 0) + QualifyingIn(Tail(objs))

\* history: the detections above threshold a batch shows for stream s
RECURSIVE BatchQualifying(_, _)
BatchQualifying(batch, s) ==
  IF batch = <<>> THEN 0
  ELSE (IF Head(batch).source_id = s THEN QualifyingIn(Head(batch).obj_meta_list) ELSE 0)
       + BatchQualifying(Tail(batch), s)

\* one frame of AdvancedLiveCounter.osd_sink_pad_buffer_probe: session and
\* total grow by one per qualifying detection, live is overwritten
AdvFrame(c, objs) ==
  [live |-> QualifyingIn(objs),
   session |-> c.session + QualifyingIn(objs),
   total |-> c.total + QualifyingIn(objs)]

RECURSIVE AdvFrames(_, _)
\* the while loop of the probe over frame_meta_list
AdvFrames(sc, batch) ==
  IF batch = <<>> THEN sc
  ELSE LET f == Head(batch) IN
       IF f.source_id \in DOMAIN sc
       THEN AdvFrames([sc EXCEPT ![f.source_id] = AdvFrame(@, f.obj_meta_list)],
                      Tail(batch))
       ELSE AdvFrames(sc, Tail(batch))

\* the bound of the model on what one behaviour adds to the counters
AdvWithinCap(sc) == sc[0].session + sc[1].session <= MaxCount
AnWithinCap(an) ==
  an[0].session_count + an[0].analytics_events
    + an[1].session_count + an[1].analytics_events <= MaxCount

AdvProbe(B) ==
  /\ prog = "advanced"
  /\ \E batch \in B :
       /\ stream_counts' = AdvFrames(stream_counts, batch)
       /\ fc_qualifying' = [s \in Streams |-> fc_qualifying[s] + BatchQualifying(batch, s)]
  /\ AdvWithinCap(stream_counts')
  /\ UNCHANGED <<prog, notFrame, stream_analytics, fc_loaded>>

\* monitor_output of run_with_config_file, one "**PERF:" line of the
\* deepstream-app output: with 5% chance per stream a simulated detection
AdvSimulated(c, hit, live) ==
  IF hit THEN [live |-> live, session |-> c.session + 1, total |-> c.total + 1] ELSE c

AdvMonitorOutput ==
  /\ prog = "advanced"
  /\ \E hit \in [Streams -> BOOLEAN], live \in [Streams -> 0..2] :
       /\ \A s \in Streams : ~hit[s] => live[s] = 0
       /\ stream_counts' = [s \in Streams |-> AdvSimulated(stream_counts[s], hit[s], live[s])]
  /\ AdvWithinCap(stream_counts')
  /\ UNCHANGED <<prog, notFrame, stream_analytics, fc_loaded, fc_qualifying>>

\* __init__ and load_persistent_counts: only "total" is seeded
InitAdvancedFrom(loaded) ==
  /\ prog = "advanced"
  /\ fc_loaded \in loaded
  /\ stream_counts = [s \in Streams |-> [live |-> 0, session |-> 0, total |-> fc_loaded[s]]]
  /\ stream_analytics = FreshStreamAnalytics
  /\ fc_qualifying = [s \in Streams |-> 0]
  /\ IdleNotFrame

(***************************************************************************)
(* AnalyticsStreamCounter (frame-count policy with analytics events)       *)
(***************************************************************************)
\* process_frame_objects: the frame counters are reset, then every
\* detection above threshold adds to the frame, session and total counters
process_frame_objects(a, objs) ==
  [a EXCEPT !.frame_detections = QualifyingIn(objs),
            !.live_objects = QualifyingIn(objs),
            !.session_count = @ + QualifyingIn(objs),
            !.total_count = @ + QualifyingIn(objs)]

RECURSIVE AnFrames(_, _)
\* the while loop of AnalyticsStreamCounter.osd_sink_pad_buffer_probe
AnFrames(an, batch) ==
  IF batch = <<>> THEN an
  ELSE LET f == Head(batch) IN
       IF f.source_id \in DOMAIN an
       THEN AnFrames([an EXCEPT ![f.source_id] = process_frame_objects(@, f.obj_meta_list)],
                     Tail(batch))
       ELSE AnFrames(an, Tail(batch))

AnOsdProbe(B) ==
  /\ prog = "analytics"
  /\ \E batch \in B :
       /\ stream_analytics' = AnFrames(stream_analytics, batch)
       /\ fc_qualifying' = [s \in Streams |-> fc_qualifying[s] + BatchQualifying(batch, s)]
  /\ AnWithinCap(stream_analytics')
  /\ UNCHANGED <<prog, notFrame, stream_counts, fc_loaded>>

EventTypes == {"ENTRY", "EXIT", "MOVING", "STOPPED", "EMPTY", "OCCUPIED"}

\* process_analytics_event: the event type first, then the line crossing
\* when the event carries an objSignature
process_analytics_event(a, type, objSignature) ==
  LET a1 == CASE type \in {"ENTRY", "EXIT", "MOVING", "STOPPED"} ->
                   [a EXCEPT !.analytics_events = @ + 1]
              [] type = "EMPTY" -> [a EXCEPT !.live_objects = 0]
              [] OTHER -> a
  IN IF objSignature
     THEN [a1 EXCEPT !.line_crossings = @ + 1, !.total_count = @ + 1, !.session_count = @ + 1]
     ELSE a1

\* analytics_src_pad_buffer_probe with one event of one frame
AnAnalyticsProbe ==
  /\ prog = "analytics"
  /\ \E s \in Streams, type \in EventTypes, sig \in BOOLEAN :
       stream_analytics' =
         [stream_analytics EXCEPT ![s] = process_analytics_event(@, type, sig)]
  /\ AnWithinCap(stream_analytics')
  /\ UNCHANGED <<prog, notFrame, stream_counts, fc_loaded, fc_qualifying>>

\* simulate_analytics_data for one stream: detect says the 30% branch is
\* taken with new_objects detections, crossing says the 5% branch is taken
SimulatedStream(a, detect, new_objects, crossing) ==
  LET a1 == IF detect
            THEN [a EXCEPT !.live_objects = new_objects,
                           !.frame_detections = new_objects,
                           !.session_count = @ + new_objects,
                           !.total_count = @ + new_objects]
            ELSE a
  IN IF crossing
     THEN [a1 EXCEPT !.line_crossings = @ + 1, !.analytics_events = @ + 1]
     ELSE a1

\* monitor_output of run_with_config_file calls simulate_analytics_data on
\* every "**PERF:" line of the deepstream-app output
AnSimulate ==
  /\ prog = "analytics"
  /\ \E detect \in [Streams -> BOOLEAN], n \in [Streams -> 0..3],
        crossing \in [Streams -> BOOLEAN] :
       /\ \A s \in Streams : ~detect[s] => n[s] = 0
       /\ stream_analytics' =
            [s \in Streams |->
               SimulatedStream(stream_analytics[s], detect[s], n[s], crossing[s])]
  /\ AnWithinCap(stream_analytics')
  /\ UNCHANGED <<prog, notFrame, stream_counts, fc_loaded, fc_qualifying>>

\* __init__ and load_persistent_counts: total_count and line_crossings are
\* seeded from the file
InitAnalyticsFrom(loaded) ==
  /\ prog = "analytics"
  /\ fc_loaded \in loaded
  /\ \E crossings \in loaded :
       stream_analytics = [s \in Streams |-> [FreshStreamAnalytics[s] EXCEPT
                                                !.total_count = fc_loaded[s],
                                                !.line_crossings = crossings[s]]]
  /\ stream_counts = FreshStreamCounts
  /\ fc_qualifying = [s \in Streams |-> 0]
  /\ IdleNotFrame

NoneLoaded == {[s \in Streams |-> 0]}
AnyLoaded ==
  NoneLoaded \cup {[s \in Streams |-> IF s = t THEN n ELSE 0] : t \in Streams, n \in 1..MaxLoaded}

\* the frame-count components, each started from an empty snapshot
InitFrame == InitAdvancedFrom(NoneLoaded) \/ InitAnalyticsFrom(NoneLoaded)
NextFrame ==
  \/ AdvProbe(FrameBatches)
  \/ AdvMonitorOutput
  \/ AnOsdProbe(FrameBatches)
  \/ AnAnalyticsProbe
  \/ AnSimulate
SpecFrame == InitFrame /\ [][NextFrame]_vars

\* C2: under the frame-count policy, started from an empty snapshot, the
\* total of a stream is the number of detections above threshold the probe
\* saw on it; analytics events and simulated detections add nothing.
C2_TotalIsQualifyingDetections ==
  \A s \in Streams :
    /\ prog = "advanced" => stream_counts[s].total = fc_qualifying[s]
    /\ prog = "analytics" => stream_analytics[s].total_count = fc_qualifying[s]

(***************************************************************************)
(* ObjectCounter (object_counter.py)                                       *)
(***************************************************************************)
ObjFile(c) == [kind |-> "dict", entries |-> c]

\* a save that leaves the file as it found it
save_counts_KeepsOld(file, c, outcome) == file
\* save_counts: json.dump of self.counts; an exception is caught and printed
save_counts(file, c, outcome) ==
  CASE outcome = "ok" -> ObjFile(c)
    [] outcome = "denied" -> file
    [] outcome = "torn" -> FileGarbage

ObjectClasses == {"can", "bottle", "other"}

\* increment_count under self.lock, for a stream whose key is in self.counts
increment_count_ResetsOthers(c, s, object_class) ==
  [x \in DOMAIN c |-> IF x = s THEN [cans |-> 1, total_objects |-> 1] ELSE FreshCounts[x]]
increment_count(c, s, object_class) ==
  [c EXCEPT ![s] = [cans |-> IF object_class \in {"can", "bottle"} THEN @.cans + 1 ELSE @.cans,
                    total_objects |-> @.total_objects + 1]]

RECURSIVE SumTotals(_, _)
SumTotals(c, S) ==
  IF S = {} THEN 0
  ELSE LET s == CHOOSE x \in S : TRUE IN c[s].total_objects + SumTotals(c, S \ {s})

\* increment_count(stream_id, object_class): an unknown stream key changes
\* nothing and saves nothing
IncrementCall(stream_id, object_class, outcome) ==
  /\ prog = "object"
  /\ IF stream_id \in DOMAIN counts
     THEN /\ counts' = increment_count(counts, stream_id, object_class)
          /\ oc_file' = save_counts(oc_file, counts', outcome)
          /\ oc_saved' = outcome
     ELSE UNCHANGED <<counts, oc_file, oc_saved>>
  /\ oc_last' = {stream_id}
  /\ UNCHANGED live_counts
  /\ SumTotals(counts', ObjStreams) <= MaxCount
  /\ UNCHANGED <<prog, notObj>>

\* what increment_count returns: the cans of the stream after the update,
\* or 0 from the statement after the with block
increment_count_returns(c, stream_id, object_class) ==
  IF stream_id \in DOMAIN c
  THEN increment_count(c, stream_id, object_class)[stream_id].cans
  ELSE 0

ObjIncrement ==
  \E stream_id \in ObjStreams \cup {Cardinality(ObjStreams)},
     object_class \in ObjectClasses, outcome \in SaveOutcomes :
    IncrementCall(stream_id, object_class, outcome)

\* a reset that clears every stream whatever it was called with
reset_count_ClearsAll(c, is_none, stream_id) ==
  [s \in DOMAIN c |-> [cans |-> 0, total_objects |-> 0]]
\* reset_count(stream_id): one stream, or every stream when stream_id is None
reset_count(c, is_none, stream_id) ==
  [s \in DOMAIN c |-> IF is_none \/ stream_id = s
                      THEN [cans |-> 0, total_objects |-> 0] ELSE c[s]]

ResetCall(is_none, stream_id, outcome) ==
  /\ prog = "object"
  /\ counts' = reset_count(counts, is_none, stream_id)
  /\ oc_file' = save_counts(oc_file, counts', outcome)
  /\ oc_saved' = outcome
  /\ UNCHANGED <<prog, notObj, oc_last, live_counts>>

ObjReset ==
  \E is_none \in BOOLEAN, stream_id \in ObjStreams \cup {Cardinality(ObjStreams)},
     outcome \in SaveOutcomes :
    ResetCall(is_none, stream_id, outcome)

\* load_counts on a file that an earlier process saved, or on no file
load_counts(file) == IF file.kind = "dict" THEN file.entries ELSE FreshCounts

SavedCounts ==
  {[s \in ObjStreams |-> IF s = t THEN [cans |-> c, total_objects |-> 1] ELSE FreshCounts[s]] :
     t \in ObjStreams, c \in 0..1}

InitObject ==
  /\ prog = "object"
  /\ \E file \in {FileMissing, FileGarbage} \cup {ObjFile(c) : c \in SavedCounts} :
       /\ counts = load_counts(file)
       /\ IF file.kind = "missing"
          THEN \E o \in SaveOutcomes : /\ oc_file = save_counts(file, counts, o)
                                        /\ oc_saved = o
          ELSE /\ oc_file = file
               /\ oc_saved = "none"
  /\ live_counts = FreshLiveCounts
  /\ oc_last = {}
  /\ IdleNotObj

(***************************************************************************)
(* LiveCounterMonitor (simple_live_counter.py)                             *)
(***************************************************************************)
\* save_persistent_counts: "stream_0" and "stream_1", cans and total_objects
\* both from the total
LiveSnapshot(lc) == [s \in Streams |-> [cans |-> lc[s].total, total_objects |-> lc[s].total]]

\* load_persistent_counts: the total of a stream is the "cans" of its entry
LiveLoadedTotal(lc, entries, s) ==
  IF s \in DOMAIN entries THEN entries[s].cans ELSE lc[s].total

load_persistent_counts(file) ==
  IF file.kind = "dict"
  THEN [s \in Streams |->
          [current |-> 0, total |-> LiveLoadedTotal(FreshLiveCounts, file.entries, s)]]
  ELSE FreshLiveCounts

\* one round of monitor_deepstream_output: per stream, with 10% chance, a
\* simulated detection is counted and the counts are saved
RECURSIVE LiveRound(_, _, _, _)
LiveRound(st, S, hit, cur) ==
  IF S = {} THEN st
  ELSE LET s == CHOOSE x \in S : \A y \in S : x <= y
           lc == IF hit[s]
                 THEN [st.lc EXCEPT ![s] = [current |-> cur[s], total |-> @.total + 1]]
                 ELSE st.lc
           f == IF hit[s] THEN save_counts(st.file, LiveSnapshot(lc), st.outcome) ELSE st.file
       IN LiveRound([st EXCEPT !.lc = lc, !.file = f], S \ {s}, hit, cur)

LiveMonitorOutput ==
  /\ prog = "live"
  /\ \E hit \in [Streams -> BOOLEAN], cur \in [Streams -> {0, 3}], outcome \in SaveOutcomes :
       LET r == LiveRound([lc |-> live_counts, file |-> oc_file, outcome |-> outcome],
                          Streams, hit, cur) IN
       /\ \A s \in Streams : ~hit[s] => cur[s] = 0
       /\ live_counts' = r.lc
       /\ oc_file' = r.file
  /\ live_counts'[0].total + live_counts'[1].total <= MaxCount + MaxLoaded
  /\ UNCHANGED <<prog, notObj, oc_last, oc_saved, counts>>

\* a new process: __init__ and load_persistent_counts on the file as it is
LiveRestart ==
  /\ prog = "live"
  /\ live_counts' = load_persistent_counts(oc_file)
  /\ UNCHANGED <<prog, notObj, oc_last, oc_saved, counts, oc_file>>

InitLive ==
  /\ prog = "live"
  /\ oc_file \in {FileMissing, FileGarbage} \cup {ObjFile(c) : c \in SavedCounts}
  /\ live_counts = load_persistent_counts(oc_file)
  /\ counts = FreshCounts
  /\ oc_last = {}
  /\ oc_saved = "none"
  /\ IdleNotObj

(***************************************************************************)
(* Persistence of TrackingBasedCounter and LiveCounterMonitor across       *)
(* processes                                                               *)
(***************************************************************************)
InitPersist == InitTrackFrom(InitFiles) \/ InitLive
NextPersist ==
  \/ TrackProbe(SingleBatches)
  \/ TrackCleanup
  \/ TrackRestart
  \/ LiveMonitorOutput
  \/ LiveRestart
SpecPersist == InitPersist /\ [][NextPersist]_vars

\* C3: a snapshot that was saved and is loaded by a fresh process gives
\* every stream the total it had when it was saved.
C3_RoundTrip ==
  /\ [][(TrackRestart
          /\ tb_file = save_session_data(tb_file, stream_totals, session_counts, "ok"))
        => \A s \in Streams : Get(stream_totals', s) = Get(stream_totals, s)]_vars
  /\ [][(LiveRestart /\ oc_file = ObjFile(LiveSnapshot(live_counts)))
        => \A s \in Streams : live_counts'[s].total = live_counts[s].total]_vars

\* a second process runs on totals it loaded from what the first one saved:
\* a total that differs from the saved session count
C3_Witness ==
  /\ prog = "track"
  /\ tb_starts = 2
  /\ stream_totals = tb_loaded
  /\ tb_file.kind = "dict"
  /\ \E i \in 1..Len(tb_file.entries) :
       LET e == tb_file.entries[i] IN
       /\ e.session_count = 2
       /\ e.total_count > e.session_count
       /\ IsIntLiteral(e.key)
       /\ Get(stream_totals, int(e.key)) = e.total_count

\* C8: when load_session_data fails, the counters of the new process are at
\* the empty snapshot: no stream has a total.
C8_FailedLoadLeavesDefault ==
  tb_load_failed => \A s \in Streams : Get(tb_loaded, s) = 0

(***************************************************************************)
(* Every counter component, from any persisted snapshot                    *)
(***************************************************************************)
InitCounters ==
  \/ InitTrackFrom(InitFiles)
  \/ InitAdvancedFrom(AnyLoaded)
  \/ InitAnalyticsFrom(AnyLoaded)
  \/ InitObject
  \/ InitLive
NextCounters ==
  \/ TrackProbe(SingleBatches)
  \/ TrackCleanup
  \/ AdvProbe(SingleFrameBatches)
  \/ AdvMonitorOutput
  \/ AnOsdProbe(SingleFrameBatches)
  \/ AnAnalyticsProbe
  \/ AnSimulate
  \/ ObjIncrement
  \/ ObjReset
  \/ LiveMonitorOutput
SpecCounters == InitCounters /\ [][NextCounters]_vars

\* the total count of a stream, as the running component holds it
total_count ==
  [s \in ObjStreams |->
     CASE prog = "track" -> Get(stream_totals, s)
       [] prog = "advanced" -> IF s \in Streams THEN stream_counts[s].total ELSE 0
       [] prog = "analytics" -> IF s \in Streams THEN stream_analytics[s].total_count ELSE 0
       [] prog = "object" -> counts[s].total_objects
       [] prog = "live" -> IF s \in Streams THEN live_counts[s].total ELSE 0
       [] OTHER -> 0]

\* C7: in every step of every counter component the total of a stream does
\* not go down, unless the step is a reset_count call.
C7_TotalNeverDecreases ==
  [][(\E s \in ObjStreams : total_count'[s] < total_count[s]) => ObjReset]_vars

\* a loaded snapshot, then ingestion on top of it
C7_Witness ==
  /\ prog = "analytics"
  /\ \E s \in Streams :
       /\ fc_loaded[s] > 0
       /\ fc_qualifying[s] > 0
       /\ stream_analytics[s].total_count > fc_loaded[s] + fc_qualifying[s]

(***************************************************************************)
(* Publisher entry points.  The global publisher belongs to the code that  *)
(* owns the connection: the monitor_and_publish thread of                  *)
(* tracking_deepstream.py and production_deepstream.py, the main loop of   *)
(* tracking_mqtt.py and production_mqtt.py.  client.is_connected() and     *)
(* self.connected both follow the broker connection and are one flag here. *)
(***************************************************************************)
EntryPoints ==
  {"tracking_deepstream", "tracking_mqtt", "production_deepstream", "production_mqtt"}
\* entry points whose main thread starts a monitor thread and then runs the app
WithMonitorThread == {"tracking_deepstream", "production_deepstream"}
\* entry points that connect once and never again
ConnectOnce == {"production_deepstream", "production_mqtt"}

notPub == <<trackVars, frameVars, objVars, connVars, snapVars, tmVars, loopVars, callVars, miscVars>>

\* mqtt_publisher is not None: the monitor code has constructed the publisher
created == mon_pc # "none" /\ mon_pc # "init"

Alive == main_pc # "exited" /\ main_pc # "none"

LoopsOf(p) == loops_starting[p] + loops_alive[p]

\* start_continuous_publishing: a new publish_loop thread, whatever the state
\* of earlier ones
start_continuous_publishing(starting, p) == [starting EXCEPT ![p] = @ + 1]

\* a monitor that leaves reconnect_attempts alone on a successful connect
TrackingMonitorStep_KeepsAttempts(attempts, ok) ==
  IF ok THEN [reconnect_attempts |-> attempts, next |-> "monitoring"]
  ELSE IF attempts + 1 >= max_reconnect_attempts
       THEN [reconnect_attempts |-> attempts + 1, next |-> "wait30"]
       ELSE [reconnect_attempts |-> attempts + 1, next |-> "wait5"]
\* monitor_and_publish of tracking_deepstream.py after connect() answered:
\* the new reconnect_attempts and where the thread goes next
TrackingMonitorStep(attempts, ok) ==
  IF ok THEN [reconnect_attempts |-> 0, next |-> "monitoring"]
  ELSE IF attempts + 1 >= max_reconnect_attempts
       THEN [reconnect_attempts |-> attempts + 1, next |-> "wait30"]
       ELSE [reconnect_attempts |-> attempts + 1, next |-> "wait5"]

\* what follows connect() in each entry point
AfterConnect(attempts, ok) ==
  CASE prog = "tracking_deepstream" -> TrackingMonitorStep(attempts, ok)
    [] prog = "tracking_mqtt" ->
         [reconnect_attempts |-> attempts, next |-> IF ok THEN "monitoring" ELSE "wait5"]
    [] OTHER ->
         [reconnect_attempts |-> attempts, next |-> IF ok THEN "monitoring" ELSE "exited"]

\* history: the state of the reconnection logic a successful connect ends
ComesFrom ==
  IF degraded THEN "DEGRADED" ELSE IF fail_run > 0 \/ lost THEN "RECONNECTING" ELSE "CONNECTING"

\* One pass of the connecting code: the publisher is constructed if there is
\* none, connect() is called and answers ok or not, and the code acts on it.
MonConnect ==
  /\ prog \in EntryPoints /\ Alive /\ running
  /\ mon_pc \in {"init", "connect"}
  /\ \E ok \in BOOLEAN :
       LET r == AfterConnect(reconnect_attempts, ok) IN
       /\ ok => LoopsOf("global") < MaxLoops
       /\ connected' = [connected EXCEPT !["global"] = ok]
       /\ loops_starting' = IF ok THEN start_continuous_publishing(loops_starting, "global")
                            ELSE loops_starting
       /\ reconnect_attempts' = r.reconnect_attempts
       /\ mon_pc' = r.next
       /\ fail_run' = IF ok THEN 0
                      ELSE IF fail_run < MaxFailRun THEN fail_run + 1 ELSE MaxFailRun
       /\ degraded' = IF ok THEN FALSE ELSE (degraded \/ r.next = "wait30")
       /\ recovered_from' = IF ok THEN ComesFrom ELSE recovered_from
       /\ lost' = FALSE
       \* production_mqtt.main: a failed connect falls into finally: disconnect()
       /\ IF prog = "production_mqtt" /\ ~ok
          THEN /\ main_pc' = "exited"
               /\ shutdown_log' = shutdown_log \o <<"release">>
               /\ publishing' = [publishing EXCEPT !["global"] = FALSE]
          ELSE UNCHANGED <<main_pc, shutdown_log, publishing>>
  /\ UNCHANGED <<prog, notPub, mon_ticks, running, loops_alive>>

\* a monitor that never leaves its long pause
AfterSleep_StaysPaused(pc) == IF pc = "wait30" THEN "wait30" ELSE "connect"
\* where the code goes when time.sleep returns: back to the top of its
\* while loop, which connects
AfterSleep(pc) == "connect"

\* time.sleep(5) or time.sleep(30) is over; after the long pause
\* monitor_and_publish resets reconnect_attempts
MonWake ==
  /\ prog \in EntryPoints /\ Alive
  /\ mon_pc \in {"wait5", "wait30"}
  /\ mon_pc' = AfterSleep(mon_pc)
  /\ reconnect_attempts' = IF mon_pc = "wait30" THEN 0 ELSE reconnect_attempts
  /\ fail_run' = IF mon_pc = "wait30" THEN 0 ELSE fail_run
  /\ UNCHANGED <<prog, notPub, mon_ticks, running, main_pc, connected, publishing, loops_starting,
                 loops_alive, degraded, recovered_from, lost, shutdown_log>>

\* the inner monitoring loop sees the connection gone.  tracking_deepstream
\* goes back to connect(); tracking_mqtt.main calls stop_publishing() and
\* client.loop_stop() and sleeps 5 seconds; the production entry points have
\* no such test.
MonNoticeLoss ==
  /\ prog \in EntryPoints \ ConnectOnce /\ Alive /\ running
  /\ mon_pc = "monitoring"
  /\ ~connected["global"]
  /\ mon_pc' = IF prog = "tracking_mqtt" THEN "wait5" ELSE "connect"
  /\ publishing' = IF prog = "tracking_mqtt"
                   THEN [publishing EXCEPT !["global"] = FALSE] ELSE publishing
  /\ UNCHANGED <<prog, notPub, mon_ticks, running, main_pc, reconnect_attempts, connected,
                 loops_starting, loops_alive, fail_run, degraded, recovered_from, lost,
                 shutdown_log>>

\* one more round of "while ...: time.sleep(1)" with nothing to do: the
\* tracking entry points while the connection is up, the production entry
\* points whatever the connection does
MonTick ==
  /\ prog \in EntryPoints /\ Alive /\ running
  /\ mon_pc = "monitoring"
  /\ prog \in ConnectOnce \/ connected["global"]
  /\ mon_ticks' = ~mon_ticks
  /\ UNCHANGED <<prog, notPub, running, main_pc, mon_pc, reconnect_attempts, connected,
                 publishing, loops_starting, loops_alive, fail_run, degraded,
                 recovered_from, lost, shutdown_log>>

\* on_disconnect: the broker or the network drops the connection
OnDisconnect ==
  /\ prog \in EntryPoints /\ Alive
  /\ \E p \in Pubs :
       /\ connected[p]
       /\ connected' = [connected EXCEPT ![p] = FALSE]
       /\ lost' = (lost \/ p = "global")
  /\ UNCHANGED <<prog, notPub, mon_ticks, running, main_pc, mon_pc, reconnect_attempts, publishing,
                 loops_starting, loops_alive, fail_run, degraded, recovered_from,
                 shutdown_log>>

\* publish_loop reaches self.publishing = True and enters its while loop
LoopBegin ==
  /\ prog \in EntryPoints /\ Alive
  /\ \E p \in Pubs :
       /\ loops_starting[p] > 0
       /\ loops_starting' = [loops_starting EXCEPT ![p] = @ - 1]
       /\ loops_alive' = [loops_alive EXCEPT ![p] = @ + 1]
       /\ publishing' = [publishing EXCEPT ![p] = TRUE]
  /\ UNCHANGED <<prog, notPub, mon_ticks, running, main_pc, mon_pc, reconnect_attempts, connected,
                 fail_run, degraded, recovered_from, lost, shutdown_log>>

\* publish_loop tests "while self.publishing", finds it False and ends
LoopExit ==
  /\ prog \in EntryPoints /\ Alive
  /\ \E p \in Pubs :
       /\ loops_alive[p] > 0
       /\ ~publishing[p]
       /\ loops_alive' = [loops_alive EXCEPT ![p] = @ - 1]
  /\ UNCHANGED <<prog, notPub, mon_ticks, running, main_pc, mon_pc, reconnect_attempts, connected,
                 publishing, loops_starting, fail_run, degraded, recovered_from, lost,
                 shutdown_log>>

\* main() of an entry point with a monitor thread, after time.sleep(2).
\* tracking_deepstream: TrackingDeepStreamApp(config).run() connects the
\* app's own publisher and starts its publish loop when that worked, then
\* waits for deepstream-app.  production_deepstream: run_deepstream_app.
AppRun ==
  /\ prog \in WithMonitorThread /\ running
  /\ main_pc = "sleep2"
  /\ main_pc' = "app"
  /\ IF prog = "tracking_deepstream"
     THEN \E ok \in BOOLEAN :
            /\ connected' = [connected EXCEPT !["app"] = ok]
            /\ loops_starting' = IF ok THEN start_continuous_publishing(loops_starting, "app")
                                 ELSE loops_starting
     ELSE UNCHANGED <<connected, loops_starting>>
  /\ UNCHANGED <<prog, notPub, mon_ticks, running, mon_pc, reconnect_attempts, publishing, loops_alive,
                 fail_run, degraded, recovered_from, lost, shutdown_log>>

\* the shutdown steps of the code that handles the global publisher:
\* running = False, then stop_publishing() and disconnect() if there is one
GlobalShutdownSteps == <<"flag">> \o (IF created THEN <<"stop", "release">> ELSE <<>>)

\* the finally block of TrackingDeepStreamApp.run: stop_publishing(),
\* disconnect(), then tracking_counter.cleanup(), which saves
AppFinallySteps == <<"stop", "release", "save">>

\* the steps taken when deepstream-app ends by itself
ExitSteps ==
  CASE prog = "tracking_deepstream" -> AppFinallySteps \o GlobalShutdownSteps
    [] OTHER -> GlobalShutdownSteps

\* the steps taken on SIGINT / SIGTERM (KeyboardInterrupt where no handler is
\* installed).  sys.exit(0) in the handler unwinds the main thread, so the
\* finally blocks the main thread is inside of run after the handler.
SignalSteps ==
  CASE prog = "tracking_deepstream" ->
         GlobalShutdownSteps \o (IF main_pc = "app" THEN AppFinallySteps ELSE <<>>)
    [] prog = "production_deepstream" -> GlobalShutdownSteps \o GlobalShutdownSteps
    [] OTHER -> <<"release">>

\* the state a shutdown leaves: flags down, connections released, and the
\* persisted file written when the steps include a save
Shutdown(steps) ==
  /\ shutdown_log' = shutdown_log \o steps
  /\ main_pc' = "exited"
  /\ running' = IF \E i \in 1..Len(steps) : steps[i] = "flag" THEN FALSE ELSE running
  /\ publishing' = [p \in Pubs |-> FALSE]
  /\ connected' = [p \in Pubs |-> FALSE]
  /\ IF \E i \in 1..Len(steps) : steps[i] = "save"
     THEN \E outcome \in SaveOutcomes :
            tb_file' = save_session_data(tb_file, stream_totals, session_counts, outcome)
     ELSE UNCHANGED tb_file
  /\ UNCHANGED <<prog, frameVars, objVars, connVars, snapVars, tmVars, loopVars, callVars, miscVars, tracked_objects, session_counts, stream_totals,
                 tb_phase, tb_load_failed, tb_loaded, tb_starts, observed, tb_last, tb_overlay,
                 mon_pc, mon_ticks,
                 reconnect_attempts, loops_starting, loops_alive, fail_run, degraded,
                 recovered_from, lost>>

\* deepstream-app ends and the main thread runs to its end
AppExit ==
  /\ prog \in WithMonitorThread
  /\ main_pc = "app"
  /\ Shutdown(ExitSteps)

\* signal_handler, or KeyboardInterrupt in the main loop
Signal ==
  /\ prog \in EntryPoints /\ Alive
  /\ Shutdown(SignalSteps)

InitPub ==
  /\ prog \in EntryPoints
  /\ running = TRUE
  /\ main_pc = IF prog \in WithMonitorThread THEN "sleep2" ELSE "monitor"
  /\ mon_pc = "init"
  /\ mon_ticks = FALSE
  /\ reconnect_attempts = 0
  /\ connected = [p \in Pubs |-> FALSE]
  /\ publishing = [p \in Pubs |-> FALSE]
  /\ loops_starting = [p \in Pubs |-> 0]
  /\ loops_alive = [p \in Pubs |-> 0]
  /\ fail_run = 0
  /\ degraded = FALSE
  /\ recovered_from = "none"
  /\ lost = FALSE
  /\ shutdown_log = <<>>
  /\ IdleNotPub

NextPub ==
  \/ MonConnect
  \/ MonWake
  \/ MonNoticeLoss
  \/ MonTick
  \/ OnDisconnect
  \/ LoopBegin
  \/ LoopExit
  \/ AppRun
  \/ AppExit
  \/ Signal
SpecPub == InitPub /\ [][NextPub]_vars

\* the threads of the program are scheduled again and again
FairSpecPub ==
  /\ SpecPub
  /\ WF_vars(MonConnect) /\ WF_vars(MonWake) /\ WF_vars(MonNoticeLoss)
  /\ WF_vars(MonTick)
  /\ WF_vars(LoopBegin) /\ WF_vars(LoopExit)

\* C4: after 5 failed connects in a row the reconnection logic is in its
\* degraded pause, in every entry point: the run of fast retries never
\* reaches 5 without the 30-second pause being entered.
C4_FiveFailuresEnterDegraded ==
  fail_run >= max_reconnect_attempts => mon_pc = "wait30"

\* C5: no publisher ever has two publish_loop threads.
C5_AtMostOneLoop == \A p \in Pubs : LoopsOf(p) <= 1

\* the first position of a step in the shutdown log, 0 when it is absent
FirstPos(log, step) ==
  IF \E i \in 1..Len(log) : log[i] = step
  THEN CHOOSE i \in 1..Len(log) : log[i] = step /\ \A j \in 1..(i - 1) : log[j] # step
  ELSE 0

\* C6: a program that has shut down has set the running flag false, then
\* stopped the publish loop, then saved the counters, then released the
\* broker connection.
C6_ShutdownInOrder ==
  main_pc = "exited" =>
    /\ 0 < FirstPos(shutdown_log, "flag")
    /\ FirstPos(shutdown_log, "flag") < FirstPos(shutdown_log, "stop")
    /\ FirstPos(shutdown_log, "stop") < FirstPos(shutdown_log, "save")
    /\ FirstPos(shutdown_log, "save") < FirstPos(shutdown_log, "release")

\* C9: when the connection of the global publisher drops while the program
\* runs, a connect attempt follows (or the program ends).
C9_LossLeadsToConnect ==
  (lost /\ running /\ main_pc # "exited") ~> (~lost \/ main_pc = "exited")

\* C10: a connect that succeeds sets reconnect_attempts to 0, puts the
\* monitor back into its connected loop and starts the publish loop, and the
\* degraded pause is only ever entered with 5 failed connects in a row.
C10_SuccessResets ==
  /\ [][(~connected["global"] /\ connected'["global"]) =>
          /\ reconnect_attempts' = 0
          /\ mon_pc' = "monitoring"
          /\ loops_starting'["global"] = loops_starting["global"] + 1]_vars
  /\ [](mon_pc = "wait30" => fail_run = max_reconnect_attempts)

\* degraded, recovered by a successful connect, lost again, degraded again
C10_Witness ==
  /\ prog = "tracking_deepstream"
  /\ recovered_from = "DEGRADED"
  /\ mon_pc = "wait30"
  /\ fail_run = max_reconnect_attempts

\* C11: entering the degraded pause ends neither the process nor the
\* running flag, and a monitor in the degraded pause of a running program
\* makes a further connect attempt, whose outcome is the monitoring state
\* or the short pause after a first failure (or the program is shut down).
C11_DegradedRetries ==
  /\ [][(mon_pc # "wait30" /\ mon_pc' = "wait30") =>
          (main_pc' = main_pc /\ running' = running)]_vars
  /\ (mon_pc = "wait30" /\ main_pc # "exited") ~>
       (mon_pc \in {"monitoring", "wait5"} \/ main_pc = "exited")

\* a connect that succeeded out of the degraded mode
C11_Witness ==
  /\ prog = "tracking_deepstream"
  /\ recovered_from = "DEGRADED"
  /\ mon_pc = "monitoring"
  /\ connected["global"]
  /\ running

(***************************************************************************)
(* connect() of ProductionMQTTPublisher and TrackingMQTTPublisher           *)
(***************************************************************************)
notConn == <<trackVars, frameVars, objVars, pubVars, snapVars, tmVars, loopVars, callVars, miscVars>>

\* timeout = 10 seconds, counted in the 0.5 s steps the loop takes off it
ConnectTimeout == 20

\* a connect() whose except branch lets the error out
OnClientError_Propagates == "raised"
\* except Exception as e: ... return False
OnClientError == "False"

\* return self.connected
ConnectResult(flag) == IF flag THEN "True" ELSE "False"

\* while not self.connected and timeout > 0
KeepsWaiting(flag, timeout) == ~flag /\ timeout > 0

\* connect() is called: a new client is made and connected, its network
\* thread started, and the wait begins; any of the client calls may raise
ConnCall ==
  /\ prog = "connect"
  /\ cn_pc = "idle"
  /\ \E raises \in BOOLEAN :
       /\ cn_raised' = raises
       /\ cn_pc' = IF raises THEN "idle" ELSE "wait"
       /\ cn_result' = IF raises THEN OnClientError ELSE "none"
       /\ cn_timeout' = IF raises THEN cn_timeout ELSE ConnectTimeout
       /\ cn_threads' = (cn_threads \/ ~raises)
       /\ cn_loops' = [current |-> ~raises,
                       replaced |-> IF cn_loops.current
                                    THEN (IF cn_loops.replaced < MaxReplaced
                                          THEN cn_loops.replaced + 1
                                          ELSE MaxReplaced)
                                    ELSE cn_loops.replaced]
  /\ cn_polls' = 0
  /\ cn_seen' = cn_flag
  /\ UNCHANGED <<prog, notConn, cn_flag>>

\* one test of the while loop, with its time.sleep(0.5) when it goes on
ConnPoll ==
  /\ prog = "connect"
  /\ cn_pc = "wait"
  /\ IF KeepsWaiting(cn_flag, cn_timeout)
     THEN /\ cn_timeout' = cn_timeout - 1
          /\ cn_polls' = cn_polls + 1
          /\ cn_pc' = cn_pc
     ELSE /\ cn_pc' = "check"
          /\ UNCHANGED <<cn_timeout, cn_polls>>
  /\ UNCHANGED <<prog, notConn, cn_flag, cn_result, cn_seen, cn_raised, cn_threads, cn_loops>>

\* the message is printed and self.connected returned
ConnReturn ==
  /\ prog = "connect"
  /\ cn_pc = "check"
  /\ cn_pc' = "idle"
  /\ cn_result' = ConnectResult(cn_flag)
  /\ UNCHANGED <<prog, notConn, cn_flag, cn_timeout, cn_polls, cn_seen, cn_raised, cn_threads, cn_loops>>

\* on_connect, called by a network thread with either kind of reason code
ConnOnConnect ==
  /\ prog = "connect"
  /\ cn_threads
  /\ \E is_failure \in BOOLEAN :
       /\ cn_flag' = ~is_failure
       /\ cn_seen' = (cn_seen \/ (~is_failure /\ cn_pc # "idle"))
  /\ UNCHANGED <<prog, notConn, cn_pc, cn_timeout, cn_result, cn_polls, cn_raised, cn_threads, cn_loops>>

\* on_disconnect, called by a network thread
ConnOnDisconnect ==
  /\ prog = "connect"
  /\ cn_threads
  /\ cn_flag' = FALSE
  /\ UNCHANGED <<prog, notConn, cn_pc, cn_timeout, cn_result, cn_polls, cn_seen, cn_raised, cn_threads, cn_loops>>

\* publisher.client.loop_stop() of tracking_mqtt.main, reached when the
\* connection a connect() had made is lost: it stops the loop of self.client
ConnLoopStop ==
  /\ prog = "connect"
  /\ cn_pc = "idle"
  /\ cn_result = "True"
  /\ ~cn_flag
  /\ cn_loops.current
  /\ cn_loops' = [cn_loops EXCEPT !.current = FALSE]
  /\ cn_threads' = (cn_loops.replaced > 0)
  /\ UNCHANGED <<prog, notConn, cn_pc, cn_timeout, cn_flag, cn_result, cn_polls, cn_seen,
                 cn_raised>>

InitConnect ==
  /\ prog = "connect"
  /\ IdleConn
  /\ IdleTrack /\ IdleFrame /\ IdleObj /\ IdlePub /\ IdleSnap /\ IdleTm /\ IdleLoop /\ IdleCall /\ IdleMisc

NextConnect ==
  \/ ConnCall
  \/ ConnPoll
  \/ ConnReturn
  \/ ConnOnConnect
  \/ ConnOnDisconnect
  \/ ConnLoopStop
SpecConnect == InitConnect /\ [][NextConnect]_vars

\* the thread inside connect() is scheduled again and again
FairSpecConnect == SpecConnect /\ WF_vars(ConnPoll) /\ WF_vars(ConnReturn)

StopReturned ==
  /\ prog = "tracking_mqtt"
  /\ mon_pc = "wait5"
  /\ lost

\* C13: once stop_publishing() has returned, the publish loops started
\* before it all end (or the process does), also when a loop thread had not
\* yet reached its first statement when stop was called.
C13_StopEndsLoops ==
  StopReturned ~> (LoopsOf("global") = 0 \/ main_pc = "exited")

(***************************************************************************)
(* ObjectCounter.get_all_counts and its caller                              *)
(***************************************************************************)
notSnap == <<trackVars, frameVars, pubVars, connVars, tmVars, loopVars, callVars, miscVars>>

\* dict.copy(): a new outer dict whose values are the very inner dicts of
\* the original.  The inner dict of a key is made once, in __init__ or
\* load_counts, and only ever changed in place, so the key names it.
shallow_copy(c) == [k \in DOMAIN c |-> k]

\* what a holder of the snapshot reads through it now
SeenThrough(snap, c) == [k \in DOMAIN snap |-> c[snap[k]]]

\* get_all_counts under self.lock: return self.counts.copy()
ObjGetAllCounts ==
  /\ prog = "object"
  /\ oc_snapshot' = shallow_copy(counts)
  /\ oc_taken' = SeenThrough(oc_snapshot', counts)
  /\ UNCHANGED <<prog, notSnap, objVars>>

NextObject ==
  \/ ObjIncrement
  \/ ObjReset
  \/ ObjGetAllCounts
SpecObject == InitObject /\ [][NextObject]_vars

\* C14: what is read through a snapshot that get_all_counts returned stays
\* what it was when the snapshot was returned.
C14_SnapshotIndependent ==
  DOMAIN oc_snapshot # {} => SeenThrough(oc_snapshot, counts) = oc_taken

(***************************************************************************)
(* TrackingMQTTPublisher: update_tracked_objects and the payload read       *)
(***************************************************************************)
notTm == <<trackVars, frameVars, objVars, pubVars, connVars, snapVars, loopVars, callVars, miscVars>>

\* the lock a "with" statement of update_tracked_objects enters:
\* threading.Lock() is evaluated by the statement itself, so it is an object
\* of this call that no other thread can name
WriterLock == "made by this call"

\* publish_tracking_count enters no with statement
ReaderLock == "none"

\* whether a thread may enter "with lock": nobody else holds that object
MayEnter(lock, others) == \A t \in others : t.lock # lock \/ lock = "none"

RECURSIVE SumSession(_, _)
SumSession(sc, S) ==
  IF S = {} THEN 0
  ELSE LET s == CHOOSE x \in S : TRUE IN sc[s] + SumSession(sc, S \ {s})

\* update_tracked_objects up to and including the assignment of the new set
TmUpdateAssign ==
  /\ prog = "tracking_publisher"
  /\ tm_writer.pc = "idle"
  /\ MayEnter(WriterLock, {tm_reader})
  /\ \E stream_id \in Streams, ids \in SUBSET Ids :
       /\ SumSession(tm_session, Streams) + Cardinality(ids) <= MaxCount + Cardinality(tm_tracked[stream_id])
       /\ tm_writer' = [pc |-> "assigned", stream |-> stream_id,
                        count |-> Cardinality(tm_tracked[stream_id]),
                        lock |-> WriterLock, payload |-> <<>>]
       /\ tm_tracked' = [tm_tracked EXCEPT ![stream_id] = ids]
  /\ UNCHANGED <<prog, notTm, tm_session, tm_reader>>

\* the rest of update_tracked_objects: the session count grows by the
\* growth of the set, and the with statement is left
TmUpdateCount ==
  /\ prog = "tracking_publisher"
  /\ tm_writer.pc = "assigned"
  /\ LET current_count == Cardinality(tm_tracked[tm_writer.stream])
         previous_count == tm_writer.count
     IN tm_session' = IF current_count > previous_count
                      THEN [tm_session EXCEPT ![tm_writer.stream] = @ + (current_count - previous_count)]
                      ELSE tm_session
  /\ tm_writer' = NoCall
  /\ UNCHANGED <<prog, notTm, tm_tracked, tm_reader>>

\* publish_tracking_count reads len(self.tracked_objects[stream_id]) for
\* unique_objects_tracked
TmReadCount ==
  /\ prog = "tracking_publisher"
  /\ tm_reader.pc = "idle"
  /\ MayEnter(ReaderLock, {tm_writer})
  /\ \E stream_id \in Streams :
       tm_reader' = [pc |-> "reading", stream |-> stream_id,
                     count |-> Cardinality(tm_tracked[stream_id]),
                     lock |-> ReaderLock, payload |-> <<>>]
  /\ UNCHANGED <<prog, notTm, tm_tracked, tm_session, tm_writer>>

\* publish_tracking_count builds the payload, reading the set again for
\* tracked_object_ids, and publishes it
TmReadIds ==
  /\ prog = "tracking_publisher"
  /\ tm_reader.pc = "reading"
  /\ tm_reader' = [NoCall EXCEPT !.payload =
                     <<[unique_objects_tracked |-> tm_reader.count,
                        tracked_object_ids |-> tm_tracked[tm_reader.stream]]>>]
  /\ UNCHANGED <<prog, notTm, tm_tracked, tm_session, tm_writer>>

InitTm ==
  /\ prog = "tracking_publisher"
  /\ IdleTm
  /\ IdleTrack /\ IdleFrame /\ IdleObj /\ IdlePub /\ IdleConn /\ IdleSnap /\ IdleLoop /\ IdleCall /\ IdleMisc

NextTm ==
  \/ TmUpdateAssign
  \/ TmUpdateCount
  \/ TmReadCount
  \/ TmReadIds
SpecTm == InitTm /\ [][NextTm]_vars

\* C15: while a thread is between the steps of update_tracked_objects no
\* other thread is inside the payload read, and the two hold the same lock
\* when they are inside.
C15_OneLock ==
  /\ ~(tm_writer.pc = "assigned" /\ tm_reader.pc = "reading")
  /\ tm_writer.pc # "idle" => tm_writer.lock # "none"
  /\ tm_reader.pc # "idle" => tm_reader.lock # "none"

\* C16: counting a detection writes nothing to disk: a step in which
\* increment_count raised a count leaves the persistence file as it was.
C16_IngestNoIO ==
  [][(\E s \in DOMAIN counts : counts'[s].total_objects > counts[s].total_objects)
       => oc_file' = oc_file]_vars

\* batches in which every detection has a tracking id and is above threshold
CrowdObjs == {o \in Objs : Qualifies(o)}
CrowdBatches == BatchesUpTo(CrowdObjs, MaxCrowd)
NextCrowd == TrackProbe(CrowdBatches) \/ TrackCleanup
SpecCrowd == InitTrack /\ [][NextCrowd]_vars

\* history: the detections seen above threshold with a tracking id that
\* the counter has not taken in
Dropped(obs, tracked) ==
  Cardinality({<<s, id>> \in Streams \X Ids : id \in obs[s] /\ id \notin tracked[s]})

\* C17: one call of the probe leaves at most one more detection uncounted
\* than there was before it: an error on one detection costs that detection
\* only, the others of the frame and of the batch are counted.
C17_ErrorDropsOne ==
  [][Dropped(observed', tracked_objects') <= Dropped(observed, tracked_objects) + 1]_vars

\* the counters a detection advances when it fails the test of
\* process_tracked_objects: the if has no else branch and __init__ makes no
\* attribute for such detections
DropCounters == {}

\* C18: a probe call on detections without tracking id leaves every total,
\* session count and set of tracked ids as it was, and a diagnostic-drop
\* counter is above 0 once such a call was made.
C18_UntrackedOnlyDropCounted ==
  /\ [][(TrackProbe(SingleBatches) /\ tb_last' = "untracked") =>
          /\ tracked_objects' = tracked_objects
          /\ session_counts' = session_counts
          /\ \A s \in Streams : Get(stream_totals', s) = Get(stream_totals, s)]_vars
  /\ [](tb_last = "untracked" => \E c \in DropCounters : c > 0)

\* C19: the stream an event was just counted for has a counter state: a
\* stream id without one gets a zeroed state on its first event instead of
\* being ignored.
C19_UnknownStreamCreated ==
  \A stream_id \in oc_last : stream_id \in DOMAIN counts

(***************************************************************************)
(* A new process of each counter that loads a snapshot                      *)
(***************************************************************************)
\* dict.get(name, 0)
GetField(e, name) == IF name \in DOMAIN e THEN e[name] ELSE 0

\* the JSON objects a counts file may hold: for some of the streams an
\* entry under str(stream_id), each entry with some of the fields
SnapshotsOver(fields, optional) ==
  LET entries == UNION {[(fields \ dropped) -> {0, MaxLoaded}] : dropped \in SUBSET optional}
  IN UNION {[{str(s) : s \in S} -> entries] : S \in SUBSET Streams}

AdvSnapshots == SnapshotsOver({"total", "session"}, {"total"})
AnSnapshots == SnapshotsOver({"total_count", "session_count", "line_crossings"}, {"line_crossings"})

\* a load that also takes the session count from the file
adv_load_SeedsSession(sc, data) ==
  [s \in DOMAIN sc |->
     IF str(s) \in DOMAIN data
     THEN [sc[s] EXCEPT !.total = GetField(data[str(s)], "total"),
                        !.session = GetField(data[str(s)], "session")]
     ELSE sc[s]]
\* AdvancedLiveCounter.load_persistent_counts on a file that parses
adv_load(sc, data) ==
  [s \in DOMAIN sc |->
     IF str(s) \in DOMAIN data
     THEN [sc[s] EXCEPT !.total = GetField(data[str(s)], "total")]
     ELSE sc[s]]

\* AnalyticsStreamCounter.load_persistent_counts on a file that parses
an_load(an, data) ==
  [s \in DOMAIN an |->
     IF str(s) \in DOMAIN data
     THEN [an[s] EXCEPT !.total_count = GetField(data[str(s)], "total_count"),
                        !.line_crossings = GetField(data[str(s)], "line_crossings")]
     ELSE an[s]]

\* a new AdvancedLiveCounter process: __init__, then load_persistent_counts
\* on whatever the counts file holds
AdvRestart ==
  /\ prog = "advanced"
  /\ \E data \in AdvSnapshots :
       stream_counts' = adv_load(FreshStreamCounts, data)
  /\ fc_loaded' = [s \in Streams |-> stream_counts'[s].total]
  /\ fc_qualifying' = [s \in Streams |-> 0]
  /\ UNCHANGED <<prog, notFrame, stream_analytics>>

\* a new AnalyticsStreamCounter process
AnRestart ==
  /\ prog = "analytics"
  /\ \E data \in AnSnapshots :
       stream_analytics' = an_load(FreshStreamAnalytics, data)
  /\ fc_loaded' = [s \in Streams |-> stream_analytics'[s].total_count]
  /\ fc_qualifying' = [s \in Streams |-> 0]
  /\ UNCHANGED <<prog, notFrame, stream_counts>>

InitRestart ==
  \/ InitTrackFrom(InitFiles)
  \/ InitAdvancedFrom(AnyLoaded)
  \/ InitAnalyticsFrom(AnyLoaded)
NextRestart ==
  \/ TrackProbe(SingleBatches)
  \/ TrackCleanup
  \/ TrackRestart
  \/ AdvProbe(SingleFrameBatches)
  \/ AdvRestart
  \/ AnOsdProbe(SingleFrameBatches)
  \/ AnRestart
SpecRestart == InitRestart /\ [][NextRestart]_vars

\* the session count of every stream, for the counter that runs
SessionCount(s) ==
  CASE prog = "track" -> session_counts[s]
    [] prog = "advanced" -> stream_counts[s].session
    [] prog = "analytics" -> stream_analytics[s].session_count

\* C20: a process starts with session count 0 for every stream, whatever
\* the snapshot it loads holds, while the totals come from the snapshot.
C20_SessionStartsAtZero ==
  /\ \A s \in Streams : SessionCount(s) = 0
  /\ [][(TrackRestart \/ AdvRestart \/ AnRestart) =>
          \A s \in Streams : SessionCount(s)' = 0]_vars

\* a tracking counter just restarted on a file that holds a session count
\* above 0 and a total that it took
C20_Witness ==
  /\ prog = "track"
  /\ tb_starts = 2
  /\ tb_last = "nothing"
  /\ tb_file.kind = "dict"
  /\ \E i \in 1..Len(tb_file.entries) :
       /\ tb_file.entries[i].session_count > 0
       /\ Get(stream_totals, int(tb_file.entries[i].key)) > 0
  /\ \A s \in Streams : session_counts[s] = 0

(***************************************************************************)
(* Live counts                                                             *)
(***************************************************************************)

\* C21: after a frame of stream s has been processed, the live figure of s
\* is the number of qualifying detections of that frame alone. For the
\* tracking counter the figure is unique_objects_current of the overlay and
\* the qualifying detections are the tracked ids above threshold of the frame.
C21_LiveIsLatestFrame ==
  \A s \in Streams : \A r \in tb_overlay[s] :
    r.unique_objects_current = Cardinality(r.frame_ids)

\* C22: under the tracking-id policy no id once in the tracked id set of a
\* stream is ever removed from it by a frame update, neither in
\* TrackingBasedCounter (within one process) nor in TrackingMQTTPublisher.
C22_TrackedIdsOnlyGrow ==
  [][\A s \in Streams :
       /\ tm_tracked[s] \subseteq tm_tracked'[s]
       /\ tb_starts' = tb_starts => tracked_objects[s] \subseteq tracked_objects'[s]]_vars

\* C23: a plain reset leaves the total count of every stream unchanged.
\* reset_count takes a stream id or None and nothing else, so every call of
\* it is a plain reset.
C23_PlainResetKeepsTotal ==
  [][ObjReset => \A s \in DOMAIN counts :
                   counts'[s].total_objects = counts[s].total_objects]_vars

(***************************************************************************)
(* publish_loop of ProductionMQTTPublisher and TrackingMQTTPublisher       *)
(***************************************************************************)
LoopKinds == {"production", "tracking"}

\* int(time.time()) is only read modulo 5 and modulo 10
ClockCycle == 10
SummaryEvery == 5
HealthEvery(kind) == IF kind = "production" THEN 5 ELSE 10

\* pl_gap stops counting here
MaxGap == 10

notLoop == <<trackVars, frameVars, objVars, pubVars, connVars, snapVars, tmVars, callVars, miscVars>>

\* self.topics.get(f"source{source_id}"): None for any other source
SourceTopic(kind, source_id) ==
  CASE source_id = 0 -> IF kind = "production" THEN "camera1" ELSE "camera1/tracking"
    [] source_id = 1 -> IF kind = "production" THEN "camera2" ELSE "camera2/tracking"
    [] OTHER -> "None"

\* for source_id in range(2)
PublishedSources == <<0, 1>>

\* publish_source_count: what it hands to client.publish, nothing when the
\* source has no topic
publish_source_count(source_id, stream_data) ==
  IF SourceTopic("production", source_id) = "None" THEN <<>>
  ELSE <<[topic |-> SourceTopic("production", source_id), source_id |-> source_id,
          can_count |-> stream_data.cans, total_objects |-> stream_data.total_objects]>>

\* publish_tracking_count: the session count is read from self.session_counts
\* and then overwritten by the one of self.counter.get_all_counts()
publish_tracking_count(stream_id) ==
  IF SourceTopic("tracking", stream_id) = "None" THEN <<>>
  ELSE <<[topic |-> SourceTopic("tracking", stream_id), source_id |-> stream_id,
          unique_objects_tracked |-> Cardinality(tm_tracked[stream_id]),
          session_new_objects |-> Get(pl_counter.session_counts, stream_id),
          total_objects_detected |-> Get(pl_counter.stream_totals, stream_id)]>>

\* publish_analytics_summary: per_stream_breakdown
publish_analytics_summary ==
  <<[topic |-> "deepstream/analytics",
     per_stream_breakdown |->
       [s \in Streams |-> [unique_objects |-> Cardinality(tm_tracked[s]),
                           session_count |-> tm_session[s]]]]>>

publish_health_status == <<[topic |-> "deepstream/health"]>>

RECURSIVE PublishCounts(_)
\* the for loop of one round over the sources
PublishCounts(sources) ==
  IF sources = <<>> THEN <<>>
  ELSE LET source_id == Head(sources) IN
       (IF pl_kind = "production"
        THEN publish_source_count(source_id,
               IF source_id \in DOMAIN pl_counter THEN pl_counter[source_id]
               ELSE [cans |-> 0, total_objects |-> 0])
        ELSE publish_tracking_count(source_id))
       \o PublishCounts(Tail(sources))

Grown(gap, published) ==
  IF ~pl_connected \/ published THEN 0 ELSE IF gap < MaxGap THEN gap + 1 ELSE MaxGap

\* one round of the while self.publishing loop. time.sleep(1.0) lasts at
\* least a second, the rest of the round takes work more, and
\* get_system_health blocks a second in psutil.cpu_percent(interval=1); the
\* tracking loop reads the clock a second time, late after the first
PlRound ==
  /\ prog = "publish_loop"
  /\ \E work \in 0..1, late \in IF pl_kind = "tracking" THEN 0..1 ELSE {0} :
       LET summary == pl_connected /\ pl_kind = "tracking" /\ pl_clock % SummaryEvery = 0
           clock2 == (pl_clock + late) % ClockCycle
           health == pl_connected /\ clock2 % HealthEvery(pl_kind) = 0
       IN /\ pl_sent' = [connected |-> pl_connected,
                         counts |-> IF pl_connected THEN PublishCounts(PublishedSources) ELSE <<>>,
                         summary |-> IF summary THEN publish_analytics_summary ELSE <<>>,
                         health |-> IF health THEN publish_health_status ELSE <<>>]
          /\ pl_clock' = (clock2 + 1 + work + (IF health THEN 1 ELSE 0)) % ClockCycle
          /\ pl_gap' = [summary |-> IF pl_kind = "tracking"
                                    THEN Grown(pl_gap.summary, summary) ELSE 0,
                        health |-> Grown(pl_gap.health, health)]
  /\ UNCHANGED <<prog, notLoop, pl_kind, pl_connected, pl_counter, pl_config, hs>>

\* on_connect and on_disconnect, called by the network thread of the client
PlOnConnect ==
  /\ prog = "publish_loop"
  /\ pl_connected' = TRUE
  /\ UNCHANGED <<prog, notLoop, pl_kind, pl_clock, pl_counter, pl_sent, pl_gap, pl_config, hs>>

PlOnDisconnect ==
  /\ prog = "publish_loop"
  /\ pl_connected' = FALSE
  /\ UNCHANGED <<prog, notLoop, pl_kind, pl_clock, pl_counter, pl_sent, pl_gap, pl_config, hs>>

\* ingestion of the production pipeline: the probe of DeepStreamLiveCounter
\* calls increment_count on the ObjectCounter() that DeepStreamLiveCounter
\* made for itself
PlIngest ==
  /\ prog = "publish_loop"
  /\ pl_kind = "production"
  /\ \E stream_id \in Streams, object_class \in ObjectClasses, outcome \in SaveOutcomes :
       /\ counts' = increment_count(counts, stream_id, object_class)
       /\ oc_file' = save_counts(oc_file, counts', outcome)
       /\ oc_saved' = outcome
       /\ oc_last' = {stream_id}
  /\ SumTotals(counts', ObjStreams) <= MaxCount
  /\ UNCHANGED <<prog, trackVars, frameVars, pubVars, connVars, snapVars, tmVars, loopVars, callVars, miscVars,
                 live_counts>>

\* ingestion of the tracking pipeline: the probe of TrackingDeepStreamApp
\* calls update_tracked_objects of the publisher
PlUpdateTracked ==
  /\ prog = "publish_loop"
  /\ pl_kind = "tracking"
  /\ \E stream_id \in Streams, ids \in SUBSET Ids :
       LET previous_count == Cardinality(tm_tracked[stream_id])
           current_count == Cardinality(ids)
       IN /\ tm_tracked' = [tm_tracked EXCEPT ![stream_id] = ids]
          /\ tm_session' = IF current_count > previous_count
                           THEN [tm_session EXCEPT ![stream_id] = @ + (current_count - previous_count)]
                           ELSE tm_session
  /\ SumSession(tm_session', Streams) <= MaxCount
  /\ UNCHANGED <<prog, trackVars, frameVars, objVars, pubVars, connVars, snapVars, loopVars, callVars, miscVars,
                 tm_writer, tm_reader>>

\* the publisher after __init__, connect() and start_continuous_publishing:
\* its counter is an ObjectCounter() or a TrackingBasedCounter() of its own,
\* which has loaded whatever the counts file held
InitLoop ==
  /\ prog = "publish_loop"
  /\ pl_kind \in LoopKinds
  /\ pl_connected = TRUE
  /\ pl_clock \in 0..(ClockCycle - 1)
  /\ IF pl_kind = "production"
     THEN \E f \in {FileMissing} \cup {ObjFile(c) : c \in SavedCounts} :
            /\ pl_counter = load_counts(f)
            /\ counts = load_counts(f)
            /\ oc_file = ObjFile(counts)
     ELSE /\ pl_counter \in {[session_counts |-> EmptyMap,
                               stream_totals |-> load_session_data(f).totals] :
                                f \in {FileMissing, FileDict(<<GoodEntry(0, 1)>>)}}
          /\ counts = FreshCounts
          /\ oc_file = FileMissing
  /\ live_counts = FreshLiveCounts
  /\ oc_last = {}
  /\ oc_saved = "none"
  /\ pl_sent = NothingSent
  /\ pl_gap = [summary |-> 0, health |-> 0]
  /\ pl_config = NoConfig
  /\ hs = NoSample
  /\ IdleTrack /\ IdleFrame /\ IdlePub /\ IdleConn /\ IdleSnap /\ IdleTm /\ IdleCall /\ IdleMisc

NextLoop ==
  \/ PlIngest
  \/ PlUpdateTracked
  \/ PlRound
  \/ PlOnConnect
  \/ PlOnDisconnect
SpecLoop == InitLoop /\ [][NextLoop]_vars

\* the streams the counter of the publisher holds state for
HeldStreams ==
  IF pl_kind = "production" THEN DOMAIN pl_counter
  ELSE Streams \cup DOMAIN pl_counter.stream_totals

\* C24: a round of the publish loop that found the publisher connected has
\* published exactly one count payload for every stream the counter holds
\* state for, to the topic of that stream.
C24_EveryHeldStreamPublished ==
  pl_sent.connected =>
    \A s \in HeldStreams :
      \E i \in 1..Len(pl_sent.counts) :
        /\ pl_sent.counts[i].source_id = s
        /\ pl_sent.counts[i].topic = SourceTopic(pl_kind, s)
        /\ \A j \in 1..Len(pl_sent.counts) : pl_sent.counts[j].source_id = s => j = i

\* C25: of any SummaryEvery rounds in a row one has published the analytics
\* summary, and of any HealthEvery rounds in a row one has published the
\* health status, however long the rounds take.
C25_PeriodicPublishes ==
  pl_kind \in LoopKinds =>
    /\ pl_gap.summary < SummaryEvery
    /\ pl_gap.health < HealthEvery(pl_kind)

(***************************************************************************)
(* get_system_health                                                       *)
(***************************************************************************)
Percents == 0..100
CpuWarn == 80
MemWarn == 85

\* a status that warns only above the two marks
system_status_Above(cpu_percent, memory_percent) ==
  IF cpu_percent <= CpuWarn /\ memory_percent <= MemWarn THEN "healthy" ELSE "warning"
\* "healthy" if cpu_percent < 80 and memory.percent < 85 else "warning"
system_status(cpu_percent, memory_percent) ==
  IF cpu_percent < CpuWarn /\ memory_percent < MemWarn THEN "healthy" ELSE "warning"

\* get_system_health with the readings psutil gave
GetSystemHealth ==
  /\ prog = "health"
  /\ hs.system_status = "none"
  /\ hs' = [hs EXCEPT !.system_status = system_status(hs.cpu, hs.mem)]
  /\ UNCHANGED <<prog, notLoop, pl_kind, pl_connected, pl_clock, pl_counter, pl_sent,
                 pl_gap, pl_config>>

\* get_system_health when a call inside it raises: None is returned
GetSystemHealthFails ==
  /\ prog = "health"
  /\ hs.system_status = "none"
  /\ hs' = [hs EXCEPT !.system_status = "None"]
  /\ UNCHANGED <<prog, notLoop, pl_kind, pl_connected, pl_clock, pl_counter, pl_sent,
                 pl_gap, pl_config>>

InitHealth ==
  /\ prog = "health"
  /\ hs \in [cpu : Percents, mem : Percents, system_status : {"none"}]
  /\ pl_kind = "none"
  /\ pl_connected = FALSE
  /\ pl_clock = 0
  /\ pl_counter = <<>>
  /\ pl_sent = NothingSent
  /\ pl_gap = [summary |-> 0, health |-> 0]
  /\ pl_config = NoConfig
  /\ IdleTrack /\ IdleFrame /\ IdleObj /\ IdlePub /\ IdleConn /\ IdleSnap /\ IdleTm /\ IdleCall /\ IdleMisc

NextHealth ==
  \/ GetSystemHealth
  \/ GetSystemHealthFails
SpecHealth == InitHealth /\ [][NextHealth]_vars

\* C26: for readings between 0 and 100 the status get_system_health
\* reports is "warning" exactly when the CPU reading is 80 or more or the
\* memory reading is 85 or more, and "healthy" otherwise.
C26_HealthStatus ==
  hs.system_status \in {"healthy", "warning"} =>
    IF hs.cpu >= 80 \/ hs.mem >= 85
    THEN hs.system_status = "warning"
    ELSE hs.system_status = "healthy"

\* a status computed for a CPU reading right at its mark, memory below its own
C26_Witness ==
  /\ hs.system_status = "warning"
  /\ hs.cpu = 80
  /\ hs.mem < 85

(***************************************************************************)
(* load_config of the two publishers                                       *)
(***************************************************************************)
\* the broker configuration file: configparser.read skips a file it cannot
\* open and raises on one it cannot parse; config['message-broker'] raises
\* when the section is not there; a section may lack username or password
ConfigFiles ==
  {[state |-> st, username |-> FALSE, password |-> FALSE] :
     st \in {"missing", "malformed", "no section"}}
  \cup [state : {"section"}, username : BOOLEAN, password : BOOLEAN]

\* the environment: whether the variables for user and password are set
ConfigEnvs == [username : BOOLEAN, password : BOOLEAN]

\* ProductionMQTTPublisher.load_config: the file first, the environment
\* only in the except branch, 'admin' and 'password' when neither has it
production_load_config(file, env, field) ==
  IF file.state = "section"
  THEN IF file[field] THEN "file" ELSE "default"
  ELSE IF env[field] THEN "env" ELSE "default"

\* TrackingMQTTPublisher.load_config: the environment first, the file where
\* the value is still the default
tracking_load_config(file, env, field) ==
  IF env[field] THEN "env"
  ELSE IF file.state = "section" /\ file[field] THEN "file" ELSE "default"

\* where self.username and self.password come from; no path of load_config
\* raises for want of a file, a section or a credential
load_config(kind, file, env) ==
  [kind |-> kind, file |-> file, env |-> env, constructed |-> TRUE,
   username |-> IF kind = "production" THEN production_load_config(file, env, "username")
                ELSE tracking_load_config(file, env, "username"),
   password |-> IF kind = "production" THEN production_load_config(file, env, "password")
                ELSE tracking_load_config(file, env, "password")]

\* __init__ of a publisher
PlConstruct ==
  /\ prog = "construct"
  /\ ~pl_config.constructed
  /\ pl_config' = load_config(pl_config.kind, pl_config.file, pl_config.env)
  /\ UNCHANGED <<prog, notLoop, pl_kind, pl_connected, pl_clock, pl_counter, pl_sent,
                 pl_gap, hs>>

InitConstruct ==
  /\ prog = "construct"
  /\ pl_config \in [kind : LoopKinds, file : ConfigFiles, env : ConfigEnvs,
                     constructed : {FALSE}, username : {"none"}, password : {"none"}]
  /\ pl_kind = "none"
  /\ pl_connected = FALSE
  /\ pl_clock = 0
  /\ pl_counter = <<>>
  /\ pl_sent = NothingSent
  /\ pl_gap = [summary |-> 0, health |-> 0]
  /\ hs = NoSample
  /\ IdleTrack /\ IdleFrame /\ IdleObj /\ IdlePub /\ IdleConn /\ IdleSnap /\ IdleTm /\ IdleCall /\ IdleMisc

SpecConstruct == InitConstruct /\ [][PlConstruct]_vars

\* C29: a publisher whose broker configuration or credentials are missing
\* or unreadable is not constructed: no publisher runs with a user name or
\* a password that neither the configuration file nor the environment gave.
C29_NoDefaultCredentials ==
  pl_config.constructed =>
    /\ pl_config.username # "default"
    /\ pl_config.password # "default"

(***************************************************************************)
(* Saves that fail                                                         *)
(***************************************************************************)

\* C27: a save that fails reaches no caller and leaves the counters in
\* memory as the update made them: increment_count has added one to the
\* stream it was called for and to no other, however its save went, and
\* cleanup changes no count; a save that then succeeds writes the whole of
\* the counters as they are by then.
C27_FailedSaveKeepsCounting ==
  [][/\ (ObjIncrement /\ oc_last' \subseteq DOMAIN counts) =>
          /\ \A s \in DOMAIN counts :
               counts'[s].total_objects =
                 counts[s].total_objects + (IF s \in oc_last' THEN 1 ELSE 0)
          /\ oc_saved' = "ok" => oc_file' = [kind |-> "dict", entries |-> counts']
     /\ TrackCleanup =>
          /\ stream_totals' = stream_totals
          /\ session_counts' = session_counts]_vars

\* increment_count has counted a stream up to MaxCount and its last save failed
C27_Witness ==
  /\ prog = "object"
  /\ oc_saved \in {"denied", "torn"}
  /\ \E s \in oc_last : s \in DOMAIN counts /\ counts[s].total_objects >= 2

\* C28: whatever happens during a save, the file then holds either the
\* whole snapshot it held before or the whole new one.
C28_CrashSafe ==
  [][/\ (ObjIncrement \/ ObjReset) =>
          oc_file' \in {oc_file, [kind |-> "dict", entries |-> counts']}
     /\ TrackCleanup =>
          tb_file' \in {tb_file,
                        [kind |-> "dict",
                         entries |-> SavedEntries(stream_totals, session_counts)]}]_vars

(***************************************************************************)
(* From ingestion to the payloads                                          *)
(***************************************************************************)

\* C30: the publisher reads the counter state that ingestion changes: the
\* count payload a round publishes for a stream reports the total that
\* ingestion has counted for it by then, and where the round also publishes
\* the summary, payload and summary report the same session count.
C30_CountsFlow ==
  [][PlRound =>
       \A i \in 1..Len(pl_sent'.counts) :
         LET p == pl_sent'.counts[i] IN
         IF pl_kind = "production"
         THEN p.total_objects = counts[p.source_id].total_objects
         ELSE \A j \in 1..Len(pl_sent'.summary) :
                p.session_new_objects =
                  pl_sent'.summary[j].per_stream_breakdown[p.source_id].session_count]_vars

(***************************************************************************)
(* publish_loop, statement by statement                                    *)
(***************************************************************************)
\* the publish functions one round calls, in order, for the second the
\* round reads from the clock
RoundCalls(kind, clock) ==
  <<"source0", "source1">>
  \o (IF kind = "tracking" /\ clock % SummaryEvery = 0 THEN <<"analytics">> ELSE <<>>)
  \o (IF clock % HealthEvery(kind) = 0 THEN <<"health">> ELSE <<>>)

\* the thread after a publish function returned
AfterCall(t) ==
  IF t.call < Len(RoundCalls(pl_kind, pl_clock))
  THEN [pc |-> "call", call |-> t.call + 1]
  ELSE [pc |-> "sleep", call |-> 0]

\* while self.publishing: if self.connected:
PrLoopCheck ==
  /\ prog = "publish_round"
  /\ pr_thread.pc = "loop"
  /\ IF pl_connected
     THEN /\ pr_thread' = [pc |-> "call", call |-> 1]
          /\ pr_handed' = <<>>
     ELSE /\ pr_thread' = [pc |-> "sleep", call |-> 0]
          /\ UNCHANGED pr_handed
  /\ UNCHANGED <<prog, trackVars, frameVars, objVars, pubVars, connVars, snapVars, tmVars,
                 loopVars, miscVars>>

\* the first statement of a publish function: if not self.connected:
\* return False; otherwise the payload is built
PrFunctionCheck ==
  /\ prog = "publish_round"
  /\ pr_thread.pc = "call"
  /\ pr_thread' = IF ~pl_connected THEN AfterCall(pr_thread)
                  ELSE [pr_thread EXCEPT !.pc = "publish"]
  /\ UNCHANGED <<prog, trackVars, frameVars, objVars, pubVars, connVars, snapVars, tmVars,
                 loopVars, miscVars, pr_handed>>

\* result = self.client.publish(topic, json.dumps(payload), qos=0)
PrClientPublish ==
  /\ prog = "publish_round"
  /\ pr_thread.pc = "publish"
  /\ pr_handed' = Append(pr_handed, [call |-> RoundCalls(pl_kind, pl_clock)[pr_thread.call],
                                     connected |-> pl_connected])
  /\ pr_thread' = AfterCall(pr_thread)
  /\ UNCHANGED <<prog, trackVars, frameVars, objVars, pubVars, connVars, snapVars, tmVars,
                 loopVars, miscVars>>

\* time.sleep(1.0), and whatever more the round took
PrSleep ==
  /\ prog = "publish_round"
  /\ pr_thread.pc = "sleep"
  /\ \E work \in 0..1 : pl_clock' = (pl_clock + 1 + work) % ClockCycle
  /\ pr_thread' = [pc |-> "loop", call |-> 0]
  /\ UNCHANGED <<prog, trackVars, frameVars, objVars, pubVars, connVars, snapVars, tmVars,
                 pl_kind, pl_connected, pl_counter, pl_sent, pl_gap, pl_config, hs, pr_handed,
                 miscVars>>

\* on_connect and on_disconnect run on the network thread of the client, at
\* any moment between two statements of the publish_loop thread
PrOnConnect ==
  /\ prog = "publish_round"
  /\ pl_connected' = TRUE
  /\ UNCHANGED <<prog, notLoop, pl_kind, pl_clock, pl_counter, pl_sent, pl_gap, pl_config, hs>>

PrOnDisconnect ==
  /\ prog = "publish_round"
  /\ pl_connected' = FALSE
  /\ UNCHANGED <<prog, notLoop, pl_kind, pl_clock, pl_counter, pl_sent, pl_gap, pl_config, hs>>

InitRound ==
  /\ prog = "publish_round"
  /\ pl_kind \in LoopKinds
  /\ pl_connected = TRUE
  /\ pl_clock \in 0..(ClockCycle - 1)
  /\ pl_counter = <<>>
  /\ pl_sent = NothingSent
  /\ pl_gap = [summary |-> 0, health |-> 0]
  /\ pl_config = NoConfig
  /\ hs = NoSample
  /\ pr_thread = [pc |-> "loop", call |-> 0]
  /\ pr_handed = <<>>
  /\ IdleTrack /\ IdleFrame /\ IdleObj /\ IdlePub /\ IdleConn /\ IdleSnap /\ IdleTm /\ IdleMisc

NextRound ==
  \/ PrLoopCheck
  \/ PrFunctionCheck
  \/ PrClientPublish
  \/ PrSleep
  \/ PrOnConnect
  \/ PrOnDisconnect
SpecRound == InitRound /\ [][NextRound]_vars

\* C31: nothing is given to client.publish while self.connected is False.
C31_NoPublishWhileDisconnected ==
  \A i \in 1..Len(pr_handed) : pr_handed[i].connected

(***************************************************************************)
(* Who writes the counters                                                 *)
(***************************************************************************)

\* C32: only the frame-processing probe changes the live, session and
\* total counters of a stream: the thread that reads the output of
\* deepstream-app and the simulation code leave them as they are.
C32_SingleWriter ==
  [][/\ AdvMonitorOutput => stream_counts' = stream_counts
     /\ AnSimulate =>
          \A s \in Streams :
            /\ stream_analytics'[s].live_objects = stream_analytics[s].live_objects
            /\ stream_analytics'[s].session_count = stream_analytics[s].session_count
            /\ stream_analytics'[s].total_count = stream_analytics[s].total_count]_vars


(***************************************************************************)
(* The confidence test of every counting path, applied to one detection.   *)
(* Confidence is in tenths, as for Threshold.                              *)
(***************************************************************************)
\* the literal of DeepStreamLiveCounter.osd_sink_pad_buffer_probe: 0.3
LiveThreshold == 3
\* the literal of StreamObjectCounter.count_objects_in_frame: 0.6
GuiThreshold == 6

Confidences == 0..10
CountingPaths ==
  {"AdvancedLiveCounter", "StreamAnalyticsCounter", "DeepStreamLiveCounter",
   "StreamObjectCounter", "TrackingBasedCounter", "tracking_deepstream"}

\* the literal each path compares obj_meta.confidence with
PathThreshold(path) ==
  CASE path = "DeepStreamLiveCounter" -> LiveThreshold
    [] path = "StreamObjectCounter" -> GuiThreshold
    [] OTHER -> Threshold

\* `if obj_meta.confidence > <literal>:` guards every counter update of a path
PathCounts(path, confidence) == confidence > PathThreshold(path)

\* one path's probe meets the detection and runs its test
ThProbe ==
  /\ prog = "threshold"
  /\ th.counted = "none"
  /\ th' = [th EXCEPT !.counted =
                 IF PathCounts(th.path, th.confidence) THEN "counted" ELSE "skipped"]
  /\ UNCHANGED <<prog, trackVars, frameVars, objVars, pubVars, connVars, snapVars, tmVars,
                 loopVars, callVars, ld, lk_holder, lk_thr>>

InitThreshold ==
  /\ prog = "threshold"
  /\ IdleTrack /\ IdleFrame /\ IdleObj /\ IdlePub /\ IdleConn /\ IdleSnap /\ IdleTm
  /\ IdleLoop /\ IdleCall
  /\ th \in [confidence : Confidences, path : CountingPaths, counted : {"none"}]
  /\ ld = [setting |-> "none", env |-> "unset", file |-> "no section", value |-> "none"]
  /\ lk_holder = 0
  /\ lk_thr = <<>>

NextThreshold == ThProbe

SpecThreshold == InitThreshold /\ [][NextThreshold]_vars

\* C33: on every counting path a detection is counted exactly when its
\* confidence is strictly above 0.5; a detection at or below 0.5 is skipped.
C33_StrictSameThreshold ==
  th.counted # "none" => (th.counted = "counted" <=> th.confidence > Threshold)


\* C34: update_tracked_objects adds to the session count of the stream
\* exactly the number of ids of the new set that the stored set did not hold.
C34_SessionGrowsByNewIds ==
  [][PlUpdateTracked =>
       \A s \in Streams :
         tm_session'[s] = tm_session[s] + Cardinality(tm_tracked'[s] \ tm_tracked[s])]_vars


\* C35: in every state of TrackingBasedCounter and for every stream, the
\* session count is the number of tracked ids and the total is the total
\* loaded at startup plus the session count.
C35_TrackingCountsAgree ==
  prog = "track" =>
    \A s \in Streams :
      /\ session_counts[s] = Cardinality(tracked_objects[s])
      /\ Get(stream_totals, s) = Get(tb_loaded, s) + session_counts[s]

\* a restarted process that loaded a total and has since counted two ids
C35_Witness ==
  /\ prog = "track"
  /\ tb_starts > 1
  /\ \E s \in Streams : Get(tb_loaded, s) > 0 /\ session_counts[s] = Cardinality(Ids)


\* the broker clients of the publisher whose network loop is running
RunningLoops == (IF cn_loops.current THEN 1 ELSE 0) + cn_loops.replaced

\* C36: at most one client of a publisher has a running network loop: the
\* loop of every client an earlier connect() made is stopped before
\* connect() makes a new one.
C36_OneClientLoop == RunningLoops <= 1


(***************************************************************************)
(* TrackingMQTTPublisher.load_config, one setting at a time.  A value is   *)
(* "D" (the built-in default of the setting), "E" or "F" (other values).   *)
(***************************************************************************)
BrokerSettings == {"host", "port", "username", "password", "client-id"}
\* os.getenv finds the variable unset, set to the default, or set otherwise
EnvValues == {"unset", "D", "E"}
\* config['message-broker'] raises (no file, no section), or the section
\* lacks the key, or holds the default or another value for it
FileValues == {"no section", "absent", "D", "F"}

\* self.x = os.getenv(NAME, default)
FromEnv(env) == IF env = "unset" THEN "D" ELSE env
\* broker_section.get(key, default)
FromFile(file) == IF file = "absent" THEN "D" ELSE file

\* the value load_config leaves in self.x: the environment's, replaced by
\* the file's when it equals the default
load_setting(env, file) ==
  IF file = "no section" THEN FromEnv(env)
  ELSE IF FromEnv(env) = "D" THEN FromFile(file) ELSE FromEnv(env)

LoadSetting ==
  /\ prog = "settings"
  /\ ld.value = "none"
  /\ ld' = [ld EXCEPT !.value = load_setting(ld.env, ld.file)]
  /\ UNCHANGED <<prog, trackVars, frameVars, objVars, pubVars, connVars, snapVars, tmVars,
                 loopVars, callVars, th, lk_holder, lk_thr>>

InitSettings ==
  /\ prog = "settings"
  /\ IdleTrack /\ IdleFrame /\ IdleObj /\ IdlePub /\ IdleConn /\ IdleSnap /\ IdleTm
  /\ IdleLoop /\ IdleCall
  /\ th = [confidence |-> 0, path |-> "none", counted |-> "none"]
  /\ ld \in [setting : BrokerSettings, env : EnvValues, file : FileValues, value : {"none"}]
  /\ lk_holder = 0
  /\ lk_thr = <<>>

NextSettings == LoadSetting

SpecSettings == InitSettings /\ [][NextSettings]_vars

\* C37: a broker setting that the environment sets keeps the value of the
\* environment whatever the file holds, also when that value equals the
\* built-in default.
C37_EnvironmentFirst ==
  (ld.value # "none" /\ ld.env # "unset") => ld.value = ld.env


(***************************************************************************)
(* ObjectCounter from fresh counts                                         *)
(***************************************************************************)
\* an ObjectCounter that found no file, or one it could not read
InitFresh ==
  /\ InitObject
  /\ counts = FreshCounts

NextFresh ==
  \/ ObjIncrement
  \/ ObjReset
SpecFresh == InitFresh /\ [][NextFresh]_vars

UnknownStream == Cardinality(ObjStreams)
CallStreams == ObjStreams \cup {UnknownStream}

\* the streams other than stream_id hold what they held
OthersKept(stream_id) ==
  \A s \in ObjStreams \ {stream_id} : counts'[s] = counts[s]

\* C38: from fresh counts, every stream keeps 0 <= cans <= total_objects;
\* increment_count for a known stream adds one to its total_objects, and
\* one to its cans exactly for the classes "can" and "bottle"; an
\* increment_count or reset_count for one stream changes no other stream;
\* an unknown stream id changes nothing and returns 0.
\* (A step of increment_count(stream_id, ...) leaves oc_last = {stream_id},
\* and a reset_count whose save went as outcome leaves oc_saved = outcome,
\* so only those calls are looked at.)
C38_ObjectCounterInvariants ==
  /\ [](prog = "object" =>
          \A s \in ObjStreams : 0 <= counts[s].cans /\ counts[s].cans <= counts[s].total_objects)
  /\ [][\A stream_id \in oc_last', object_class \in ObjectClasses, outcome \in SaveOutcomes :
          IncrementCall(stream_id, object_class, outcome) =>
            /\ OthersKept(stream_id)
            /\ stream_id \in ObjStreams =>
                 /\ counts'[stream_id].total_objects = counts[stream_id].total_objects + 1
                 /\ counts'[stream_id].cans =
                      counts[stream_id].cans + (IF object_class \in {"can", "bottle"} THEN 1 ELSE 0)
            /\ stream_id \notin ObjStreams =>
                 /\ counts' = counts
                 /\ increment_count_returns(counts, stream_id, object_class) = 0]_vars
  /\ [][\A stream_id \in CallStreams, outcome \in SaveOutcomes \cap {oc_saved'} :
          ResetCall(FALSE, stream_id, outcome) =>
            /\ OthersKept(stream_id)
            /\ stream_id \in ObjStreams =>
                 counts'[stream_id] = [cans |-> 0, total_objects |-> 0]]_vars

\* a stream counted a can and another object while a second stream was
\* reset
C38_Witness ==
  /\ prog = "object"
  /\ \E s \in ObjStreams :
       /\ counts[s] = [cans |-> 1, total_objects |-> MaxCount]
       /\ oc_last = {s}


(***************************************************************************)
(* self.lock of ObjectCounter.  The threads of a process (the probe, the   *)
(* publish loop, the main thread) call increment_count, get_count,         *)
(* get_all_counts and reset_count of one ObjectCounter; each of the four   *)
(* is one `with self.lock:` block.  What the blocks do to self.counts and  *)
(* to the file is in ObjIncrement, ObjReset and ObjGetAllCounts; here a    *)
(* call is followed statement by statement for what it does to the lock.   *)
(***************************************************************************)
LockThreads == {1, 2, 3}
LockMethods == {"increment_count", "get_count", "get_all_counts", "reset_count"}

NotCalling == [pc |-> "idle", method |-> "none", known |-> TRUE, save |-> "none", done |-> "none"]

\* an update followed by a call that enters `with self.lock:` again
AfterUpdate_TakesLock(method) == "acquire"
\* after the update of increment_count and reset_count: self.save_counts(),
\* which takes no lock
AfterUpdate(method) == "save"

\* a method is called: the thread arrives at `with self.lock:`; known says
\* whether stream_key is in self.counts (for reset_count, not known is also
\* stream_id = None)
LkCall(t) ==
  /\ prog = "lock"
  /\ lk_thr[t].pc = "idle"
  /\ \E method \in LockMethods, known \in BOOLEAN :
       /\ method = "get_all_counts" => known
       /\ lk_thr' = [lk_thr EXCEPT ![t] = [pc |-> "acquire", method |-> method, known |-> known,
                                           save |-> "none", done |-> "none"]]
  /\ UNCHANGED <<prog, trackVars, frameVars, objVars, pubVars, connVars, snapVars, tmVars,
                 loopVars, callVars, th, ld, lk_holder>>

\* self.lock.__enter__: threading.Lock is not reentrant, the thread gets in
\* only while nobody holds the lock, itself included
LkAcquire(t) ==
  /\ prog = "lock"
  /\ lk_thr[t].pc = "acquire"
  /\ lk_holder = 0
  /\ lk_holder' = t
  /\ lk_thr' = [lk_thr EXCEPT ![t].pc = "body"]
  /\ UNCHANGED <<prog, trackVars, frameVars, objVars, pubVars, connVars, snapVars, tmVars,
                 loopVars, callVars, th, ld>>

\* the statements under the lock up to save_counts: an unknown key skips
\* them; for a known key the reads and updates of self.counts[stream_key]
\* may raise (an entry that load_counts took from the file as it was);
\* get_count and get_all_counts return from inside the block
LkBody(t) ==
  /\ prog = "lock"
  /\ lk_thr[t].pc = "body"
  /\ LET c == lk_thr[t] IN
     \E raises \in BOOLEAN :
       /\ raises => (c.known /\ c.method # "get_all_counts")
       /\ lk_thr' = [lk_thr EXCEPT ![t].pc =
            IF raises THEN "unwind"
            ELSE IF c.method = "reset_count" THEN AfterUpdate(c.method)
            ELSE IF c.method = "increment_count" /\ c.known THEN AfterUpdate(c.method)
            ELSE "leave"]
  /\ UNCHANGED <<prog, trackVars, frameVars, objVars, pubVars, connVars, snapVars, tmVars,
                 loopVars, callVars, th, ld, lk_holder>>

\* save_counts(): whatever the write does, the exception is caught inside
LkSave(t) ==
  /\ prog = "lock"
  /\ lk_thr[t].pc = "save"
  /\ \E outcome \in SaveOutcomes :
       lk_thr' = [lk_thr EXCEPT ![t].pc = "leave", ![t].save = outcome]
  /\ UNCHANGED <<prog, trackVars, frameVars, objVars, pubVars, connVars, snapVars, tmVars,
                 loopVars, callVars, th, ld, lk_holder>>

\* self.lock.__exit__, on return and on an exception alike: the lock is
\* released and the call ends
LkExit(t) ==
  /\ prog = "lock"
  /\ lk_thr[t].pc \in {"leave", "unwind"}
  /\ lk_holder' = 0
  /\ lk_thr' = [lk_thr EXCEPT ![t] = [NotCalling EXCEPT
                     !.save = lk_thr[t].save,
                     !.done = IF lk_thr[t].pc = "leave" THEN "returned" ELSE "raised"]]
  /\ UNCHANGED <<prog, trackVars, frameVars, objVars, pubVars, connVars, snapVars, tmVars,
                 loopVars, callVars, th, ld>>

InitLock ==
  /\ prog = "lock"
  /\ IdleTrack /\ IdleFrame /\ IdleObj /\ IdlePub /\ IdleConn /\ IdleSnap /\ IdleTm
  /\ IdleLoop /\ IdleCall
  /\ th = [confidence |-> 0, path |-> "none", counted |-> "none"]
  /\ ld = [setting |-> "none", env |-> "unset", file |-> "no section", value |-> "none"]
  /\ lk_holder = 0
  /\ lk_thr = [t \in LockThreads |-> NotCalling]

NextLock ==
  \E t \in LockThreads :
    \/ LkCall(t)
    \/ LkAcquire(t)
    \/ LkBody(t)
    \/ LkSave(t)
    \/ LkExit(t)

SpecLock == InitLock /\ [][NextLock]_vars

\* every thread inside a call is scheduled again and again, and a thread
\* waiting for a lock that is released again and again gets it in the end
FairSpecLock ==
  /\ SpecLock
  /\ \A t \in LockThreads :
       /\ SF_vars(LkAcquire(t))
       /\ WF_vars(LkBody(t))
       /\ WF_vars(LkSave(t))
       /\ WF_vars(LkExit(t))

InsideLock == {"body", "save", "leave", "unwind"}

====
